---- MODULE Spec2Model ----
(***************************************************************************)
(* Model of the expense tracker's decision logic: the keyword/statistical  *)
(* categorizer (ml/categorizer.py), the chat assistant (ml/assistant.py),  *)
(* the forecast engine (ml/predictor.py) and the storage operations they   *)
(* use (database/db_manager.py).                                           *)
(*                                                                         *)
(* Text is modelled character by character: a string is a sequence of      *)
(* one-character strings, so that substring tests, regular expressions and *)
(* text normalisation are computed as the code computes them.  Money is an *)
(* integer number of hundredths (500 rupees = 50000).                      *)
(***************************************************************************)
EXTENDS Integers, Sequences, FiniteSets, TLC

(***************************************************************************)
(* Characters and strings                                                  *)
(***************************************************************************)
Letters ==
  {"a","b","c","d","e","f","g","h","i","j","k","l","m",
   "n","o","p","q","r","s","t","u","v","w","x","y","z"}

Digits == {"0","1","2","3","4","5","6","7","8","9"}

UpperToLower ==
  [c \in {"A","B","C","D","E","F","G","H","I","J","K","L","M",
          "N","O","P","Q","R","S","T","U","V","W","X","Y","Z"} |->
     CASE c = "A" -> "a" [] c = "B" -> "b" [] c = "C" -> "c" [] c = "D" -> "d"
       [] c = "E" -> "e" [] c = "F" -> "f" [] c = "G" -> "g" [] c = "H" -> "h"
       [] c = "I" -> "i" [] c = "J" -> "j" [] c = "K" -> "k" [] c = "L" -> "l"
       [] c = "M" -> "m" [] c = "N" -> "n" [] c = "O" -> "o" [] c = "P" -> "p"
       [] c = "Q" -> "q" [] c = "R" -> "r" [] c = "S" -> "s" [] c = "T" -> "t"
       [] c = "U" -> "u" [] c = "V" -> "v" [] c = "W" -> "w" [] c = "X" -> "x"
       [] c = "Y" -> "y" [] c = "Z" -> "z"]

\* str.isspace for one character
IsSpace(c) == c \in {" ", "\t", "\n"}

\* the absent value (Python None, SQL NULL) where a name or symbol is expected
None == "None"

\* the absent value where a text is expected (no text has this shape)
NoText == <<"None">>

\* str.lower on one character
LowerChar(c) == IF c \in DOMAIN UpperToLower THEN UpperToLower[c] ELSE c

\* str.lower
Lower(s) == [i \in 1..Len(s) |-> LowerChar(s[i])]

\* s[i:] starts with p (positions are 1-based, i is the first character)
StartsAt(s, p, i) ==
  /\ i + Len(p) - 1 <= Len(s)
  /\ \A j \in 1..Len(p) : s[i + j - 1] = p[j]

\* the Python test `p in s` on strings
Contains(s, p) == \E i \in 1..(Len(s) - Len(p) + 1) : StartsAt(s, p, i)

\* str.strip
RECURSIVE LStrip(_)
LStrip(s) == IF s # <<>> /\ IsSpace(Head(s)) THEN LStrip(Tail(s)) ELSE s

RECURSIVE RStrip(_)
RStrip(s) ==
  IF s # <<>> /\ IsSpace(s[Len(s)]) THEN RStrip(SubSeq(s, 1, Len(s) - 1)) ELSE s

Strip(s) == RStrip(LStrip(s))

\* ' '.join(s.split()): runs of white space become one space, ends trimmed
RECURSIVE SqueezeSpaces(_)
SqueezeSpaces(s) ==
  IF s = <<>> THEN <<>>
  ELSE IF IsSpace(Head(s))
       THEN LET r == LStrip(s) IN
            IF r = <<>> THEN <<>> ELSE <<" ">> \o SqueezeSpaces(r)
       ELSE <<Head(s)>> \o SqueezeSpaces(Tail(s))

(***************************************************************************)
(* Categorizer (ml/categorizer.py)                                         *)
(***************************************************************************)
TRAINING_DATA ==
  << [category |-> "Food & Dining", keywords |-> <<
        <<"r","e","s","t","a","u","r","a","n","t">>,
        <<"p","i","z","z","a">>,
        <<"b","u","r","g","e","r">>,
        <<"c","o","f","f","e","e">>,
        <<"c","a","f","e">>,
        <<"l","u","n","c","h">>,
        <<"d","i","n","n","e","r">>,
        <<"b","r","e","a","k","f","a","s","t">>,
        <<"g","r","o","c","e","r","i","e","s">>,
        <<"s","u","p","e","r","m","a","r","k","e","t">>,
        <<"f","o","o","d">>,
        <<"m","e","a","l">>,
        <<"s","n","a","c","k">>,
        <<"b","a","k","e","r","y">>,
        <<"s","w","i","g","g","y">>,
        <<"z","o","m","a","t","o">>,
        <<"u","b","e","r","e","a","t","s">>,
        <<"d","o","o","r","d","a","s","h">>,
        <<"m","c","d","o","n","a","l","d","s">>,
        <<"s","t","a","r","b","u","c","k","s">>,
        <<"d","o","m","i","n","o","s">>,
        <<"k","f","c">>,
        <<"s","u","b","w","a","y">>,
        <<"t","e","a">>,
        <<"j","u","i","c","e">>,
        <<"i","c","e"," ","c","r","e","a","m">>,
        <<"f","o","o","d"," ","d","e","l","i","v","e","r","y">>,
        <<"t","a","k","e","o","u","t">>,
        <<"d","i","n","e">>,
        <<"e","a","t","i","n","g"," ","o","u","t">>,
        <<"f","a","s","t"," ","f","o","o","d">>
     >>],
     [category |-> "Transport", keywords |-> <<
        <<"u","b","e","r">>,
        <<"l","y","f","t">>,
        <<"o","l","a">>,
        <<"t","a","x","i">>,
        <<"c","a","b">>,
        <<"b","u","s">>,
        <<"t","r","a","i","n">>,
        <<"m","e","t","r","o">>,
        <<"f","u","e","l">>,
        <<"p","e","t","r","o","l">>,
        <<"g","a","s">>,
        <<"d","i","e","s","e","l">>,
        <<"p","a","r","k","i","n","g">>,
        <<"t","o","l","l">>,
        <<"c","a","r">>,
        <<"b","i","k","e">>,
        <<"m","o","t","o","r","c","y","c","l","e">>,
        <<"a","i","r","l","i","n","e">>,
        <<"f","l","i","g","h","t">>,
        <<"a","i","r","p","o","r","t">>,
        <<"t","r","a","v","e","l">>,
        <<"c","o","m","m","u","t","e">>,
        <<"r","i","d","e">>,
        <<"t","r","a","n","s","p","o","r","t">>,
        <<"a","u","t","o">>,
        <<"r","i","c","k","s","h","a","w">>,
        <<"f","a","r","e">>
     >>],
     [category |-> "Entertainment", keywords |-> <<
        <<"m","o","v","i","e">>,
        <<"c","i","n","e","m","a">>,
        <<"n","e","t","f","l","i","x">>,
        <<"s","p","o","t","i","f","y">>,
        <<"a","m","a","z","o","n"," ","p","r","i","m","e">>,
        <<"d","i","s","n","e","y">>,
        <<"h","u","l","u">>,
        <<"y","o","u","t","u","b","e">>,
        <<"g","a","m","i","n","g">>,
        <<"g","a","m","e","s">>,
        <<"c","o","n","c","e","r","t">>,
        <<"s","h","o","w">>,
        <<"p","a","r","t","y">>,
        <<"c","l","u","b">>,
        <<"b","a","r">>,
        <<"p","u","b">>,
        <<"t","h","e","a","t","r","e">>,
        <<"m","u","s","i","c">>,
        <<"b","o","o","k","s">>,
        <<"m","a","g","a","z","i","n","e">>,
        <<"s","u","b","s","c","r","i","p","t","i","o","n">>,
        <<"s","t","r","e","a","m","i","n","g">>,
        <<"f","u","n">>,
        <<"l","e","i","s","u","r","e">>,
        <<"h","o","b","b","y">>
     >>],
     [category |-> "Utilities", keywords |-> <<
        <<"e","l","e","c","t","r","i","c","i","t","y">>,
        <<"e","l","e","c","t","r","i","c"," ","b","i","l","l">>,
        <<"w","a","t","e","r"," ","b","i","l","l">>,
        <<"g","a","s"," ","b","i","l","l">>,
        <<"i","n","t","e","r","n","e","t">>,
        <<"w","i","f","i">>,
        <<"b","r","o","a","d","b","a","n","d">>,
        <<"p","h","o","n","e"," ","b","i","l","l">>,
        <<"m","o","b","i","l","e"," ","r","e","c","h","a","r","g","e">>,
        <<"c","a","b","l","e">>,
        <<"u","t","i","l","i","t","y">>,
        <<"r","e","n","t">>,
        <<"h","o","u","s","i","n","g">>,
        <<"m","a","i","n","t","e","n","a","n","c","e">>,
        <<"r","e","p","a","i","r">>,
        <<"p","l","u","m","b","e","r">>,
        <<"e","l","e","c","t","r","i","c","i","a","n">>,
        <<"h","o","m","e">>,
        <<"a","p","a","r","t","m","e","n","t">>,
        <<"h","e","a","t","i","n","g">>,
        <<"c","o","o","l","i","n","g">>
     >>],
     [category |-> "Shopping", keywords |-> <<
        <<"a","m","a","z","o","n">>,
        <<"f","l","i","p","k","a","r","t">>,
        <<"w","a","l","m","a","r","t">>,
        <<"t","a","r","g","e","t">>,
        <<"m","a","l","l">>,
        <<"c","l","o","t","h","e","s">>,
        <<"s","h","o","e","s">>,
        <<"e","l","e","c","t","r","o","n","i","c","s">>,
        <<"g","a","d","g","e","t">>,
        <<"p","h","o","n","e">>,
        <<"l","a","p","t","o","p">>,
        <<"f","u","r","n","i","t","u","r","e">>,
        <<"h","o","m","e"," ","d","e","c","o","r">>,
        <<"a","p","p","l","i","a","n","c","e">>,
        <<"g","i","f","t">>,
        <<"p","r","e","s","e","n","t">>,
        <<"s","h","o","p","p","i","n","g">>,
        <<"s","t","o","r","e">>,
        <<"r","e","t","a","i","l">>,
        <<"o","n","l","i","n","e"," ","s","h","o","p","p","i","n","g">>,
        <<"f","a","s","h","i","o","n">>,
        <<"a","c","c","e","s","s","o","r","i","e","s">>,
        <<"j","e","w","e","l","r","y">>
     >>],
     [category |-> "Healthcare", keywords |-> <<
        <<"h","o","s","p","i","t","a","l">>,
        <<"d","o","c","t","o","r">>,
        <<"c","l","i","n","i","c">>,
        <<"m","e","d","i","c","i","n","e">>,
        <<"p","h","a","r","m","a","c","y">>,
        <<"m","e","d","i","c","a","l">>,
        <<"h","e","a","l","t","h">>,
        <<"d","e","n","t","a","l">>,
        <<"d","e","n","t","i","s","t">>,
        <<"e","y","e">>,
        <<"o","p","t","i","c","i","a","n">>,
        <<"g","l","a","s","s","e","s">>,
        <<"p","r","e","s","c","r","i","p","t","i","o","n">>,
        <<"t","h","e","r","a","p","y">>,
        <<"g","y","m">>,
        <<"f","i","t","n","e","s","s">>,
        <<"w","o","r","k","o","u","t">>,
        <<"y","o","g","a">>,
        <<"i","n","s","u","r","a","n","c","e">>,
        <<"h","e","a","l","t","h"," ","i","n","s","u","r","a","n","c","e">>,
        <<"c","h","e","c","k","u","p">>,
        <<"l","a","b">>,
        <<"t","e","s","t">>
     >>],
     [category |-> "Education", keywords |-> <<
        <<"s","c","h","o","o","l">>,
        <<"c","o","l","l","e","g","e">>,
        <<"u","n","i","v","e","r","s","i","t","y">>,
        <<"c","o","u","r","s","e">>,
        <<"t","u","i","t","i","o","n">>,
        <<"b","o","o","k","s">>,
        <<"t","e","x","t","b","o","o","k">>,
        <<"u","d","e","m","y">>,
        <<"c","o","u","r","s","e","r","a">>,
        <<"l","e","a","r","n","i","n","g">>,
        <<"t","r","a","i","n","i","n","g">>,
        <<"w","o","r","k","s","h","o","p">>,
        <<"s","e","m","i","n","a","r">>,
        <<"c","e","r","t","i","f","i","c","a","t","i","o","n">>,
        <<"e","x","a","m">>,
        <<"s","t","u","d","y">>,
        <<"e","d","u","c","a","t","i","o","n">>,
        <<"c","l","a","s","s">>,
        <<"t","u","t","o","r","i","a","l">>,
        <<"o","n","l","i","n","e"," ","c","o","u","r","s","e">>,
        <<"d","e","g","r","e","e">>,
        <<"d","i","p","l","o","m","a">>
     >>],
     [category |-> "Savings", keywords |-> <<
        <<"s","a","v","i","n","g","s">>,
        <<"i","n","v","e","s","t","m","e","n","t">>,
        <<"m","u","t","u","a","l"," ","f","u","n","d">>,
        <<"s","t","o","c","k">>,
        <<"f","i","x","e","d"," ","d","e","p","o","s","i","t">>,
        <<"f","d">>,
        <<"r","d">>,
        <<"r","e","c","u","r","r","i","n","g"," ","d","e","p","o","s","i","t">>,
        <<"r","e","t","i","r","e","m","e","n","t">>,
        <<"p","e","n","s","i","o","n">>,
        <<"e","m","i">>,
        <<"l","o","a","n"," ","p","a","y","m","e","n","t">>,
        <<"s","i","p">>,
        <<"b","o","n","d","s">>,
        <<"g","o","l","d">>,
        <<"c","r","y","p","t","o">>,
        <<"b","i","t","c","o","i","n">>
     >>],
     [category |-> "Salary", keywords |-> <<
        <<"s","a","l","a","r","y">>,
        <<"p","a","y","c","h","e","c","k">>,
        <<"w","a","g","e","s">>,
        <<"i","n","c","o","m","e">>,
        <<"p","a","y">>,
        <<"c","o","m","p","e","n","s","a","t","i","o","n">>,
        <<"b","o","n","u","s">>,
        <<"c","o","m","m","i","s","s","i","o","n">>,
        <<"e","a","r","n","i","n","g","s">>
     >>],
     [category |-> "Freelance", keywords |-> <<
        <<"f","r","e","e","l","a","n","c","e">>,
        <<"c","o","n","s","u","l","t","i","n","g">>,
        <<"c","o","n","t","r","a","c","t">>,
        <<"p","r","o","j","e","c","t"," ","p","a","y","m","e","n","t">>,
        <<"g","i","g">>,
        <<"s","i","d","e"," ","h","u","s","t","l","e">>,
        <<"c","l","i","e","n","t"," ","p","a","y","m","e","n","t">>,
        <<"i","n","v","o","i","c","e">>,
        <<"h","o","u","r","l","y">>
     >>],
     [category |-> "Investment", keywords |-> <<
        <<"d","i","v","i","d","e","n","d">>,
        <<"i","n","t","e","r","e","s","t">>,
        <<"r","e","t","u","r","n","s">>,
        <<"c","a","p","i","t","a","l"," ","g","a","i","n","s">>,
        <<"p","r","o","f","i","t">>,
        <<"i","n","v","e","s","t","m","e","n","t"," ","i","n","c","o","m","e">>,
        <<"r","e","n","t","a","l"," ","i","n","c","o","m","e">>,
        <<"p","a","s","s","i","v","e"," ","i","n","c","o","m","e">>
     >>],
     [category |-> "Gift", keywords |-> <<
        <<"g","i","f","t">>,
        <<"p","r","e","s","e","n","t">>,
        <<"b","i","r","t","h","d","a","y"," ","m","o","n","e","y">>,
        <<"c","a","s","h"," ","g","i","f","t">>,
        <<"r","e","c","e","i","v","e","d">>,
        <<"w","e","d","d","i","n","g"," ","g","i","f","t">>,
        <<"b","o","n","u","s"," ","g","i","f","t">>
     >>] >>

\* re.sub(r'[^a-zA-Z0-9\s]', ' ', text) on one character
CleanChar(c) == IF c \in Letters \cup Digits \/ IsSpace(c) THEN c ELSE " "

clean_text(text) ==
  LET lowered  == Lower(text)
      replaced == [i \in 1..Len(lowered) |-> CleanChar(lowered[i])]
  IN  Strip(SqueezeSpaces(replaced))

\* some keyword of table entry i occurs in the text
EntryMatches(i, text) ==
  \E k \in 1..Len(TRAINING_DATA[i].keywords) :
     Contains(text, Lower(TRAINING_DATA[i].keywords[k]))

\* mutant: the last matching category of the table instead of the first
keyword_match_last(text) ==
  LET text_lower == Lower(text)
      hits == {i \in 1..Len(TRAINING_DATA) : EntryMatches(i, text_lower)}
  IN  IF hits = {} THEN None
      ELSE TRAINING_DATA[CHOOSE i \in hits : \A j \in hits : i >= j].category

\* mutant: the category of the keyword that occurs leftmost in the text
keyword_match_leftmost(text) ==
  LET text_lower == Lower(text)
      At(i, p) == \E k \in 1..Len(TRAINING_DATA[i].keywords) :
                     StartsAt(text_lower, Lower(TRAINING_DATA[i].keywords[k]), p)
      hits == {<<p, i>> \in (1..Len(text_lower)) \X (1..Len(TRAINING_DATA)) : At(i, p)}
  IN  IF hits = {} THEN None
      ELSE TRAINING_DATA[(CHOOSE h \in hits : \A o \in hits :
                            h[1] < o[1] \/ (h[1] = o[1] /\ h[2] <= o[2]))[2]].category

keyword_match(text) ==
  LET text_lower == Lower(text)
      hits == {i \in 1..Len(TRAINING_DATA) : EntryMatches(i, text_lower)}
  IN  IF hits = {} THEN None
      ELSE TRAINING_DATA[CHOOSE i \in hits : \A j \in hits : i <= j].category

\* self.model of the categorizer: either unset (fitted = FALSE) or a fitted
\* pipeline; label is the class it assigns to a text
UnsetClassifier == [fitted |-> FALSE, label |-> None]

\* mutant: predict without the try/except around the classifier, whose
\* exception reaches the caller
predict_unguarded(description, model) ==
  IF description = NoText \/ description = <<>> \/ Strip(description) = <<>>
  THEN <<"Other", "0.0">>
  ELSE LET hit == keyword_match(clean_text(description))
       IN  IF hit # None THEN <<hit, "0.95">>
           ELSE IF model.fitted THEN <<model.label, "posterior">>
           ELSE <<"NotFittedError", "raised">>

\* confidences are kept symbolic: "0.95" keyword hit, "0.0" no usable text,
\* "posterior" the classifier's maximum class probability; a model that is
\* None and a pipeline whose predict raises (fitted = FALSE) both end at the
\* last `return 'Other', 0.0`
predict(description, model) ==
  IF description = NoText \/ description = <<>> \/ Strip(description) = <<>>
  THEN <<"Other", "0.0">>
  ELSE LET cleaned == clean_text(description)
           hit     == keyword_match(cleaned)
       IN  IF hit # None THEN <<hit, "0.95">>
           ELSE IF model.fitted
                THEN <<model.label, "posterior">>
                ELSE <<"Other", "0.0">>

(***************************************************************************)
(* Regular expressions (Python re), as far as the assistant uses them      *)
(*                                                                         *)
(* A pattern is a tree; Match runs Python's backtracking search over it:   *)
(* alternatives left to right, greedy repetition, so that the capture      *)
(* groups get the text Python gives them.                                  *)
(***************************************************************************)
Spaces == {" ", "\t", "\n"}

Lit(s)    == [t |-> "lit", s |-> s]       \* literal text
Cls(cs)   == [t |-> "cls", cs |-> cs]     \* one character of a class: \d \s [..]
Dot       == [t |-> "dot"]                \* .  any character but a newline
Cat(rs)   == [t |-> "seq", rs |-> rs]     \* r1 r2 ...
Alt(rs)   == [t |-> "alt", rs |-> rs]     \* r1|r2|...
Opt(r)    == [t |-> "opt", r |-> r]       \* r?
Star(r)   == [t |-> "star", r |-> r]      \* r*
Plus(r)   == [t |-> "seq", rs |-> <<r, [t |-> "star", r |-> r]>>]   \* r+
Grp(n, r) == [t |-> "grp", n |-> n, r |-> r]   \* capture group n
Bol       == [t |-> "bol"]                \* ^
Eol       == [t |-> "eol"]                \* $
Sp0       == Star(Cls(Spaces))            \* \s*
Sp1       == Plus(Cls(Spaces))            \* \s+

\* a group that did not take part in the match (Python: None)
Unset == <<0, 0>>
NoGroups == <<Unset, Unset>>
NoMatch == [ok |-> FALSE, from |-> 0, to |-> 0, groups |-> NoGroups]

\* Match(todo, s, i, g): match the patterns of todo one after the other from
\* position i on; the first way that succeeds, in Python's order of trying.
\* `to` is the position after the match; a group is <<first, after>>.
RECURSIVE Match(_, _, _, _)
RECURSIVE MatchAlt(_, _, _, _, _)
Match(todo, s, i, g) ==
  IF todo = <<>> THEN [ok |-> TRUE, from |-> 0, to |-> i, groups |-> g]
  ELSE
    LET h == Head(todo)
        rest == Tail(todo)
    IN  CASE h.t = "lit" ->
               IF StartsAt(s, h.s, i) THEN Match(rest, s, i + Len(h.s), g)
               ELSE NoMatch
          [] h.t = "cls" ->
               IF i <= Len(s) /\ s[i] \in h.cs THEN Match(rest, s, i + 1, g)
               ELSE NoMatch
          [] h.t = "dot" ->
               IF i <= Len(s) /\ s[i] # "\n" THEN Match(rest, s, i + 1, g)
               ELSE NoMatch
          [] h.t = "seq" -> Match(h.rs \o rest, s, i, g)
          [] h.t = "alt" -> MatchAlt(h.rs, rest, s, i, g)
          [] h.t = "opt" ->
               LET taken == Match(<<h.r>> \o rest, s, i, g)
               IN  IF taken.ok THEN taken ELSE Match(rest, s, i, g)
          [] h.t = "star" ->
               LET more == Match(<<h.r, h>> \o rest, s, i, g)
               IN  IF more.ok THEN more ELSE Match(rest, s, i, g)
          [] h.t = "grp" ->
               Match(<<h.r, [t |-> "end", n |-> h.n, from |-> i]>> \o rest, s, i, g)
          [] h.t = "end" ->
               Match(rest, s, i, [g EXCEPT ![h.n] = <<h.from, i>>])
          [] h.t = "bol" -> IF i = 1 THEN Match(rest, s, i, g) ELSE NoMatch
          [] h.t = "eol" -> IF i = Len(s) + 1 THEN Match(rest, s, i, g) ELSE NoMatch

MatchAlt(alts, rest, s, i, g) ==
  IF alts = <<>> THEN NoMatch
  ELSE LET first == Match(<<Head(alts)>> \o rest, s, i, g)
       IN  IF first.ok THEN first ELSE MatchAlt(Tail(alts), rest, s, i, g)

\* re.search(pattern, s) looking from position i on: the leftmost match
RECURSIVE SearchFrom(_, _, _)
SearchFrom(r, s, i) ==
  IF i > Len(s) + 1 THEN NoMatch
  ELSE LET m == Match(<<r>>, s, i, NoGroups)
       IN  IF m.ok THEN [m EXCEPT !.from = i] ELSE SearchFrom(r, s, i + 1)

\* re.search(pattern, s, re.IGNORECASE); the patterns are lower case
Search(r, s) == SearchFrom(r, Lower(s), 1)

\* match.group(n) resp. match.groups()[n-1], or NoText
Group(m, s, n) ==
  IF m.groups[n] = Unset THEN NoText
  ELSE SubSeq(s, m.groups[n][1], m.groups[n][2] - 1)

\* re.sub(pattern, '', s): every non-overlapping match removed
RECURSIVE SubEmpty(_, _, _)
SubEmpty(r, s, i) ==
  IF i > Len(s) THEN <<>>
  ELSE LET m == Match(<<r>>, s, i, NoGroups)
       IN  IF m.ok /\ m.to > i THEN SubEmpty(r, s, m.to)
           ELSE <<s[i]>> \o SubEmpty(r, s, i + 1)

(***************************************************************************)
(* AIAssistant.intent_patterns                                             *)
(***************************************************************************)

\* (?:RUPEE|rs\.?|inr)
Currency ==
  Alt(<<Lit(<<"₹">>), Cat(<<Lit(<<"r","s">>), Opt(Lit(<<".">>))>>), Lit(<<"i","n","r">>)>>)

\* \d+(?:\.\d{1,2})?
Number ==
  Cat(<<Plus(Cls(Digits)), Opt(Cat(<<Lit(<<".">>), Cat(<<Cls(Digits), Opt(Cls(Digits))>>)>>))>>)

intent_patterns ==
  [ add_expense |-> <<
      \* (?:i\s+)?(?:spent|paid|bought|purchased|expense[d]?)\s+(?:₹|rs\.?|inr)?\s*(\d+(?:\.\d{1,2})?)\s*(?:₹|rs\.?|inr)?\s*(?:on|for|at)?\s*(.+)?
      Cat(<< Opt(Cat(<<Lit(<<"i">>), Sp1>>)),
             Alt(<<Lit(<<"s","p","e","n","t">>), Lit(<<"p","a","i","d">>), Lit(<<"b","o","u","g","h","t">>), Lit(<<"p","u","r","c","h","a","s","e","d">>), Cat(<<Lit(<<"e","x","p","e","n","s","e">>), Opt(Lit(<<"d">>))>>)>>),
             Sp1,
             Opt(Currency),
             Sp0,
             Grp(1, Number),
             Sp0,
             Opt(Currency),
             Sp0,
             Opt(Alt(<<Lit(<<"o","n">>), Lit(<<"f","o","r">>), Lit(<<"a","t">>)>>)),
             Sp0,
             Opt(Grp(2, Plus(Dot))) >>),
      \* (?:add|record|log)\s+(?:an?\s+)?expense\s+(?:of\s+)?(?:₹|rs\.?|inr)?\s*(\d+(?:\.\d{1,2})?)\s*(?:₹|rs\.?|inr)?\s*(?:for|on)?\s*(.+)?
      Cat(<< Alt(<<Lit(<<"a","d","d">>), Lit(<<"r","e","c","o","r","d">>), Lit(<<"l","o","g">>)>>),
             Sp1,
             Opt(Cat(<<Lit(<<"a">>), Opt(Lit(<<"n">>)), Sp1>>)),
             Lit(<<"e","x","p","e","n","s","e">>),
             Sp1,
             Opt(Cat(<<Lit(<<"o","f">>), Sp1>>)),
             Opt(Currency),
             Sp0,
             Grp(1, Number),
             Sp0,
             Opt(Currency),
             Sp0,
             Opt(Alt(<<Lit(<<"f","o","r">>), Lit(<<"o","n">>)>>)),
             Sp0,
             Opt(Grp(2, Plus(Dot))) >>),
      \* (\d+(?:\.\d{1,2})?)\s*(?:₹|rs\.?|inr)?\s+(?:spent\s+)?(?:on|for|at)\s+(.+)
      Cat(<< Grp(1, Number),
             Sp0,
             Opt(Currency),
             Sp1,
             Opt(Cat(<<Lit(<<"s","p","e","n","t">>), Sp1>>)),
             Alt(<<Lit(<<"o","n">>), Lit(<<"f","o","r">>), Lit(<<"a","t">>)>>),
             Sp1,
             Grp(2, Plus(Dot)) >>) >>,
    add_income |-> <<
      \* (?:i\s+)?(?:received|got|earned|income)\s+(?:₹|rs\.?|inr)?\s*(\d+(?:\.\d{1,2})?)\s*(?:₹|rs\.?|inr)?\s*(?:from|as|for)?\s*(.+)?
      Cat(<< Opt(Cat(<<Lit(<<"i">>), Sp1>>)),
             Alt(<<Lit(<<"r","e","c","e","i","v","e","d">>), Lit(<<"g","o","t">>), Lit(<<"e","a","r","n","e","d">>), Lit(<<"i","n","c","o","m","e">>)>>),
             Sp1,
             Opt(Currency),
             Sp0,
             Grp(1, Number),
             Sp0,
             Opt(Currency),
             Sp0,
             Opt(Alt(<<Lit(<<"f","r","o","m">>), Lit(<<"a","s">>), Lit(<<"f","o","r">>)>>)),
             Sp0,
             Opt(Grp(2, Plus(Dot))) >>),
      \* (?:add|record|log)\s+(?:an?\s+)?income\s+(?:of\s+)?(?:₹|rs\.?|inr)?\s*(\d+(?:\.\d{1,2})?)\s*(?:₹|rs\.?|inr)?\s*(?:from|as)?\s*(.+)?
      Cat(<< Alt(<<Lit(<<"a","d","d">>), Lit(<<"r","e","c","o","r","d">>), Lit(<<"l","o","g">>)>>),
             Sp1,
             Opt(Cat(<<Lit(<<"a">>), Opt(Lit(<<"n">>)), Sp1>>)),
             Lit(<<"i","n","c","o","m","e">>),
             Sp1,
             Opt(Cat(<<Lit(<<"o","f">>), Sp1>>)),
             Opt(Currency),
             Sp0,
             Grp(1, Number),
             Sp0,
             Opt(Currency),
             Sp0,
             Opt(Alt(<<Lit(<<"f","r","o","m">>), Lit(<<"a","s">>)>>)),
             Sp0,
             Opt(Grp(2, Plus(Dot))) >>),
      \* salary\s+(?:of\s+)?(?:₹|rs\.?|inr)?\s*(\d+(?:\.\d{1,2})?)
      Cat(<< Lit(<<"s","a","l","a","r","y">>),
             Sp1,
             Opt(Cat(<<Lit(<<"o","f">>), Sp1>>)),
             Opt(Currency),
             Sp0,
             Grp(1, Number) >>) >>,
    check_balance |-> <<
      \* (?:what\'?s?\s+)?(?:my\s+)?(?:current\s+)?balance
      Cat(<< Opt(Cat(<<Lit(<<"w","h","a","t">>), Opt(Lit(<<"'">>)), Opt(Lit(<<"s">>)), Sp1>>)),
             Opt(Cat(<<Lit(<<"m","y">>), Sp1>>)),
             Opt(Cat(<<Lit(<<"c","u","r","r","e","n","t">>), Sp1>>)),
             Lit(<<"b","a","l","a","n","c","e">>) >>),
      \* how\s+much\s+(?:do\s+i\s+have|money|left)
      Cat(<< Lit(<<"h","o","w">>),
             Sp1,
             Lit(<<"m","u","c","h">>),
             Sp1,
             Alt(<<Cat(<<Lit(<<"d","o">>), Sp1, Lit(<<"i">>), Sp1, Lit(<<"h","a","v","e">>)>>), Lit(<<"m","o","n","e","y">>), Lit(<<"l","e","f","t">>)>>) >>),
      \* (?:show\s+)?(?:my\s+)?(?:account\s+)?summary
      Cat(<< Opt(Cat(<<Lit(<<"s","h","o","w">>), Sp1>>)),
             Opt(Cat(<<Lit(<<"m","y">>), Sp1>>)),
             Opt(Cat(<<Lit(<<"a","c","c","o","u","n","t">>), Sp1>>)),
             Lit(<<"s","u","m","m","a","r","y">>) >>) >>,
    check_spending |-> <<
      \* how\s+much\s+(?:did\s+i\s+)?(?:spent?|spend)
      Cat(<< Lit(<<"h","o","w">>),
             Sp1,
             Lit(<<"m","u","c","h">>),
             Sp1,
             Opt(Cat(<<Lit(<<"d","i","d">>), Sp1, Lit(<<"i">>), Sp1>>)),
             Lit(<<"s","p","e","n">>),
             Alt(<<Opt(Lit(<<"t">>)), Lit(<<"d">>)>>) >>),
      \* (?:my\s+)?(?:total\s+)?(?:spending|expenses)
      Cat(<< Opt(Cat(<<Lit(<<"m","y">>), Sp1>>)),
             Opt(Cat(<<Lit(<<"t","o","t","a","l">>), Sp1>>)),
             Alt(<<Lit(<<"s","p","e","n","d","i","n","g">>), Lit(<<"e","x","p","e","n","s","e","s">>)>>) >>),
      \* (?:show\s+)?spending\s+(?:on|for|in)\s+(.+)
      Cat(<< Opt(Cat(<<Lit(<<"s","h","o","w">>), Sp1>>)),
             Lit(<<"s","p","e","n","d","i","n","g">>),
             Sp1,
             Alt(<<Lit(<<"o","n">>), Lit(<<"f","o","r">>), Lit(<<"i","n">>)>>),
             Sp1,
             Grp(1, Plus(Dot)) >>) >>,
    recent_transactions |-> <<
      \* (?:show\s+)?(?:my\s+)?(?:recent|last|latest)\s+(?:transactions?|expenses?)
      Cat(<< Opt(Cat(<<Lit(<<"s","h","o","w">>), Sp1>>)),
             Opt(Cat(<<Lit(<<"m","y">>), Sp1>>)),
             Alt(<<Lit(<<"r","e","c","e","n","t">>), Lit(<<"l","a","s","t">>), Lit(<<"l","a","t","e","s","t">>)>>),
             Sp1,
             Alt(<<Cat(<<Lit(<<"t","r","a","n","s","a","c","t","i","o","n">>), Opt(Lit(<<"s">>))>>), Cat(<<Lit(<<"e","x","p","e","n","s","e">>), Opt(Lit(<<"s">>))>>)>>) >>),
      \* what\s+did\s+i\s+(?:spend|buy)\s+(?:recently|today|yesterday)
      Cat(<< Lit(<<"w","h","a","t">>),
             Sp1,
             Lit(<<"d","i","d">>),
             Sp1,
             Lit(<<"i">>),
             Sp1,
             Alt(<<Lit(<<"s","p","e","n","d">>), Lit(<<"b","u","y">>)>>),
             Sp1,
             Alt(<<Lit(<<"r","e","c","e","n","t","l","y">>), Lit(<<"t","o","d","a","y">>), Lit(<<"y","e","s","t","e","r","d","a","y">>)>>) >>) >>,
    set_budget |-> <<
      \* set\s+(?:a\s+)?budget\s+(?:of\s+)?(?:₹|rs\.?|inr)?\s*(\d+(?:\.\d{1,2})?)\s*(?:for\s+)?(.+)?
      Cat(<< Lit(<<"s","e","t">>),
             Sp1,
             Opt(Cat(<<Lit(<<"a">>), Sp1>>)),
             Lit(<<"b","u","d","g","e","t">>),
             Sp1,
             Opt(Cat(<<Lit(<<"o","f">>), Sp1>>)),
             Opt(Currency),
             Sp0,
             Grp(1, Number),
             Sp0,
             Opt(Cat(<<Lit(<<"f","o","r">>), Sp1>>)),
             Opt(Grp(2, Plus(Dot))) >>),
      \* budget\s+(.+)\s+(?:to|at)\s+(?:₹|rs\.?|inr)?\s*(\d+(?:\.\d{1,2})?)
      Cat(<< Lit(<<"b","u","d","g","e","t">>),
             Sp1,
             Grp(1, Plus(Dot)),
             Sp1,
             Alt(<<Lit(<<"t","o">>), Lit(<<"a","t">>)>>),
             Sp1,
             Opt(Currency),
             Sp0,
             Grp(2, Number) >>) >>,
    greeting |-> <<
      \* ^(?:hi|hello|hey|hola|greetings)[\s!]*$
      Cat(<< Bol,
             Alt(<<Lit(<<"h","i">>), Lit(<<"h","e","l","l","o">>), Lit(<<"h","e","y">>), Lit(<<"h","o","l","a">>), Lit(<<"g","r","e","e","t","i","n","g","s">>)>>),
             Star(Cls(Spaces \cup {"!"})),
             Eol >>),
      \* ^good\s+(?:morning|afternoon|evening)[\s!]*$
      Cat(<< Bol,
             Lit(<<"g","o","o","d">>),
             Sp1,
             Alt(<<Lit(<<"m","o","r","n","i","n","g">>), Lit(<<"a","f","t","e","r","n","o","o","n">>), Lit(<<"e","v","e","n","i","n","g">>)>>),
             Star(Cls(Spaces \cup {"!"})),
             Eol >>) >>,
    help |-> <<
      \* (?:what\s+can\s+you\s+do|help|commands?|how\s+to\s+use)
      Alt(<<Cat(<<Lit(<<"w","h","a","t">>), Sp1, Lit(<<"c","a","n">>), Sp1, Lit(<<"y","o","u">>), Sp1, Lit(<<"d","o">>)>>), Lit(<<"h","e","l","p">>), Cat(<<Lit(<<"c","o","m","m","a","n","d">>), Opt(Lit(<<"s">>))>>), Cat(<<Lit(<<"h","o","w">>), Sp1, Lit(<<"t","o">>), Sp1, Lit(<<"u","s","e">>)>>)>>) >>,
    thanks |-> <<
      \* (?:thanks?|thank\s+you|thx|ty)
      Cat(<< Lit(<<"t">>),
             Alt(<<Cat(<<Lit(<<"h","a","n","k">>), Opt(Lit(<<"s">>))>>), Cat(<<Lit(<<"h","a","n","k">>), Sp1, Lit(<<"y","o","u">>)>>), Lit(<<"h","x">>), Lit(<<"y">>)>>) >>) >> ]

\* (?:₹|rs\.?|inr)?\s*(\d+(?:\.\d{1,2})?)\s*(?:₹|rs\.?|inr)?
smart_amount ==
  Cat(<< Opt(Currency),
         Sp0,
         Grp(1, Number),
         Sp0,
         Opt(Currency) >>)

\* (?:₹|rs\.?|inr)?\s*\d+(?:\.\d{1,2})?\s*(?:₹|rs\.?|inr)?
smart_strip_amount ==
  Cat(<< Opt(Currency),
         Sp0,
         Plus(Cls(Digits)),
         Opt(Cat(<<Lit(<<".">>), Cat(<<Cls(Digits), Opt(Cls(Digits))>>)>>)),
         Sp0,
         Opt(Currency) >>)

\* (?:spent|paid|for|on|at|expense|income)\s*
smart_strip_words ==
  Cat(<< Alt(<<Lit(<<"s","p","e","n","t">>), Lit(<<"p","a","i","d">>), Lit(<<"f","o","r">>), Lit(<<"o","n">>), Lit(<<"a","t">>), Lit(<<"e","x","p","e","n","s","e">>), Lit(<<"i","n","c","o","m","e">>)>>),
         Sp0 >>)

(***************************************************************************)
(* Entity extraction and intent matching (ml/assistant.py)                 *)
(***************************************************************************)
DigitValue ==
  [c \in Digits |->
     CASE c = "0" -> 0 [] c = "1" -> 1 [] c = "2" -> 2 [] c = "3" -> 3
       [] c = "4" -> 4 [] c = "5" -> 5 [] c = "6" -> 6 [] c = "7" -> 7
       [] c = "8" -> 8 [] c = "9" -> 9]

\* the digits of s read as a decimal number
RECURSIVE DigitsValue(_)
DigitsValue(s) ==
  IF s = <<>> THEN 0
  ELSE 10 * DigitsValue(SubSeq(s, 1, Len(s) - 1)) + DigitValue[s[Len(s)]]

\* position of the decimal point in s, 0 if there is none
PointAt(s) ==
  IF \E i \in 1..Len(s) : s[i] = "." THEN CHOOSE i \in 1..Len(s) : s[i] = "."
  ELSE 0

\* float(text) succeeds; of Python's numerals the plain decimal ones are
\* modelled: digits, optionally a point and one or two more digits
IsNumeral(s) ==
  LET p == PointAt(s)
      whole == IF p = 0 THEN s ELSE SubSeq(s, 1, p - 1)
      frac  == IF p = 0 THEN <<>> ELSE SubSeq(s, p + 1, Len(s))
  IN  /\ s # NoText
      /\ whole # <<>>
      /\ \A i \in 1..Len(whole) : whole[i] \in Digits
      /\ \A i \in 1..Len(frac) : frac[i] \in Digits
      /\ p # 0 => Len(frac) \in {1, 2}

\* float(text) of such a numeral, in hundredths
float(s) ==
  LET p == PointAt(s)
      whole == IF p = 0 THEN s ELSE SubSeq(s, 1, p - 1)
      frac  == IF p = 0 THEN <<>> ELSE SubSeq(s, p + 1, Len(s))
  IN  100 * DigitsValue(whole)
        + (IF Len(frac) = 1 THEN 10 * DigitsValue(frac) ELSE DigitsValue(frac))

\* what an extractor returns: None (found = FALSE) or a dictionary
NotFound == [found |-> FALSE, amount |-> 0, text |-> NoText]
Found(a, t) == [found |-> TRUE, amount |-> a, text |-> t]

\* _match_intent(message, intent); patterns is self.intent_patterns[intent]
match_intent(patterns, message) ==
  \E i \in 1..Len(patterns) : Search(patterns[i], message).ok

\* the loop shared by _extract_expense and _extract_income: the first pattern
\* that matches with a non-zero amount decides
RECURSIVE ExtractAmountText(_, _)
ExtractAmountText(patterns, message) ==
  IF patterns = <<>> THEN NotFound
  ELSE LET match == Search(Head(patterns), message)
           amount == float(Group(match, message, 1))
           g2 == Group(match, message, 2)
           description == IF g2 # NoText /\ g2 # <<>> THEN Strip(g2) ELSE NoText
       IN  IF match.ok /\ amount # 0 THEN Found(amount, description)
           ELSE ExtractAmountText(Tail(patterns), message)

\* _extract_expense(message); patterns is self.intent_patterns['add_expense']
extract_expense(patterns, message) == ExtractAmountText(patterns, message)

\* Python's `x or default` on a text
OrDefault(t, default) == IF t = NoText \/ t = <<>> THEN default ELSE t

\* data['description'] or 'Income'
WithDefault(e, default) ==
  IF e.found THEN Found(e.amount, OrDefault(e.text, default)) ELSE e

\* _extract_income(message); patterns is self.intent_patterns['add_income']
extract_income(patterns, message) ==
  WithDefault(ExtractAmountText(patterns, message), <<"I","n","c","o","m","e">>)

\* _extract_budget: float(groups[0]) decides which group is the amount; when
\* it raises ValueError the groups are read the other way round
RECURSIVE extract_budget(_, _)
extract_budget(patterns, message) ==
  IF patterns = <<>> THEN NotFound
  ELSE LET match == Search(Head(patterns), message)
           g1 == Group(match, message, 1)
           g2 == Group(match, message, 2)
           amount == IF IsNumeral(g1) THEN float(g1) ELSE float(g2)
           category == IF IsNumeral(g1) THEN g2 ELSE g1
       IN  IF match.ok /\ amount # 0 THEN Found(amount, category)
           ELSE extract_budget(Tail(patterns), message)

income_keywords ==
  << <<"r","e","c","e","i","v","e","d">>, <<"e","a","r","n","e","d">>, <<"g","o","t">>,
     <<"i","n","c","o","m","e">>, <<"s","a","l","a","r","y">>, <<"p","a","i","d">> >>

\* mutant: a smart parse that takes every amount for an expense
smart_parse_spending(message) ==
  LET amount_match == SearchFrom(smart_amount, message, 1)
      amount == float(Group(amount_match, message, 1))
      without_amount == Strip(SubEmpty(smart_strip_amount, message, 1))
      description == Strip(SubEmpty(smart_strip_words, without_amount, 1))
  IN  IF amount_match.ok /\ amount > 0
      THEN [handler |-> "add_expense", amount |-> amount,
            text |-> OrDefault(description, <<"E","x","p","e","n","s","e">>)]
      ELSE [handler |-> "fallback", amount |-> 0, text |-> NoText]

\* the pure part of _smart_parse: which handler it calls with what, if any
smart_parse(message) ==
  LET amount_match == SearchFrom(smart_amount, message, 1)
      amount == float(Group(amount_match, message, 1))
      without_amount == Strip(SubEmpty(smart_strip_amount, message, 1))
      description == Strip(SubEmpty(smart_strip_words, without_amount, 1))
      is_income == \E k \in 1..Len(income_keywords) : Contains(message, income_keywords[k])
  IN  IF amount_match.ok /\ amount > 0
      THEN IF is_income
           THEN [handler |-> "add_income", amount |-> amount,
                 text |-> OrDefault(description, <<"I","n","c","o","m","e">>)]
           ELSE [handler |-> "add_expense", amount |-> amount,
                 text |-> OrDefault(description, <<"E","x","p","e","n","s","e">>)]
      ELSE [handler |-> "fallback", amount |-> 0, text |-> NoText]

\* The decisions of _process_with_regex, in the order of the code: the
\* handler it ends in, with the amount and the text (description or category)
\* it passes on.  `via` tells the branch: "smart" for _smart_parse.
Routed(h, a, t, v) == [handler |-> h, amount |-> a, text |-> t, via |-> v]

route_message(patterns, message) ==
  IF match_intent(patterns.greeting, message) THEN Routed("greeting", 0, NoText, "intent")
  ELSE IF match_intent(patterns.help, message) THEN Routed("help", 0, NoText, "intent")
  ELSE IF match_intent(patterns.thanks, message) THEN Routed("thanks", 0, NoText, "intent")
  ELSE LET expense_data == extract_expense(patterns.add_expense, message) IN
  IF expense_data.found
  THEN Routed("add_expense", expense_data.amount, expense_data.text, "intent")
  ELSE LET income_data == extract_income(patterns.add_income, message) IN
  IF income_data.found
  THEN Routed("add_income", income_data.amount, income_data.text, "intent")
  ELSE IF match_intent(patterns.check_balance, message)
  THEN Routed("check_balance", 0, NoText, "intent")
  ELSE IF match_intent(patterns.check_spending, message)
  THEN Routed("check_spending", 0, NoText, "intent")
  ELSE IF match_intent(patterns.recent_transactions, message)
  THEN Routed("recent_transactions", 0, NoText, "intent")
  ELSE LET budget_data == extract_budget(patterns.set_budget, message) IN
  IF budget_data.found
  THEN Routed("set_budget", budget_data.amount, budget_data.text, "intent")
  ELSE LET smart == smart_parse(message) IN
       Routed(smart.handler, smart.amount, smart.text, "smart")

(***************************************************************************)
(* The messages of the bounded runs, as the user types them               *)
(***************************************************************************)
Messages ==
  { <<"h","i">>,
    <<"h","e","l","p">>,
    <<"t","h","a","n","k","s">>,
    <<"S","p","e","n","t"," ","5","0","0"," ","o","n"," ","g","r","o","c","e","r","i","e","s">>,
    <<"s","p","e","n","t"," ","0"," ","o","n"," ","m","y"," ","e","x","p","e","n","s","e","s">>,
    <<"p","a","i","d"," ","3","0","0"," ","f","o","r"," ","c","o","n","s","u","l","t","i","n","g">>,
    <<"r","e","c","e","i","v","e","d"," ","5","0","0","0"," ","f","r","o","m"," ","f","r","e","e","l","a","n","c","e">>,
    <<"s","a","l","a","r","y"," ","5","0","0","0","0">>,
    <<"w","h","a","t","'","s"," ","m","y"," ","b","a","l","a","n","c","e">>,
    <<"s","h","o","w"," ","m","y"," ","s","p","e","n","d","i","n","g">>,
    <<"r","e","c","e","n","t"," ","t","r","a","n","s","a","c","t","i","o","n","s">>,
    <<"b","u","d","g","e","t"," ","f","o","o","d"," ","t","o"," ","5","0","0","0">>,
    <<"s","e","t"," ","b","u","d","g","e","t"," ","o","f"," ","1","0","0","0","0"," ","f","o","r"," ","f","o","o","d">>,
    <<"s","p","e","n","t"," ","5","0","0"," ","o","n"," ","p","a","r","t","y">>,
    <<"l","u","n","c","h"," ","1","5","0">>,
    <<"b","l","a","h">>,
    <<"5","0","0"," ","s","a","l","a","r","y">>,
    <<"s","e","t"," ","b","u","d","g","e","t"," ","o","f"," ","5","0","0">>,
    <<"b","u","d","g","e","t"," ","x","y","z"," ","t","o"," ","5","0","0">>,
    <<"s","p","e","n","t"," ","₹","5","0","0"," ","o","n"," ","g","r","o","c","e","r","i","e","s">>,
    <<"p","a","i","d"," ","2","0","0"," ","f","o","r"," ","c","o","f","f","e","e">>,
    <<"b","o","u","g","h","t"," ","l","u","n","c","h"," ","f","o","r"," ","₹","1","5","0">>,
    <<"g","o","t"," ","₹","5","0","0","0"," ","f","r","o","m"," ","f","r","e","e","l","a","n","c","e">>,
    <<"r","e","c","e","i","v","e","d"," ","s","a","l","a","r","y"," ","o","f"," ","₹","5","0","0","0","0">>,
    <<"s","p","e","n","t"," ","5","0","0">>,
    <<"s","p","e","n","t"," ","0",".","0","0"," ","o","n"," ","t","e","a">>,
    <<"i"," ","s","p","e","n","t"," ","1","2",".","5"," ","r","s","."," ","a","t"," ","c","a","f","e">>,
    <<"b","u","d","g","e","t"," ","5","0","0"," ","t","o"," ","6","0","0">>,
    <<"h","o","w"," ","m","u","c","h"," ","d","i","d"," ","i"," ","s","p","e","n","d">>,
    <<"g","o","o","d"," ","m","o","r","n","i","n","g","!">>,
    <<" "," ","H","e","l","l","o","!","!"," ">>,
    <<"s","p","e","n","t"," ","0"," ","o","n"," ","f","o","o","d">>,
    <<"s","p","e","n","t"," ","2","0"," ","o","n"," ","h","e","l","p"," ","d","e","s","k">>,
    <<"a","d","d"," ","a","n"," ","e","x","p","e","n","s","e"," ","o","f"," ","7","5"," ","f","o","r"," ","t","a","x","i">>,
    <<"0">>,
    <<"g","o","t"," ","0"," ","p","a","i","d"," ","3","0">>,
    <<"i","n","c","o","m","e"," ","0"," ","s","a","l","a","r","y"," ","7","0","0">>,
    <<"s","p","e","n","t"," ","0"," ","a","n","d"," ","4","0"," ","o","n"," ","b","u","s">>,
    <<"s","h","o","w"," ","r","e","c","e","n","t"," ","e","x","p","e","n","s","e","s">>,
    <<"l","u","n","c","h"," ","0"," ","d","i","n","n","e","r"," ","5","0">>,
    <<"5","0"," ","p","a","i","d">>,
    <<"l","u","n","c","h"," ","1","2",".","3","4","5">> }

\* message.strip().lower(), the first statement of process_message
Normalize(message) == Lower(Strip(message))

\* the decisions of _process_with_regex for these messages, tabulated
RouteOf == [m \in {Normalize(x) : x \in Messages} |-> route_message(intent_patterns, m)]

(***************************************************************************)
(* Inputs and bounds                                                       *)
(***************************************************************************)
\* registered users (users.id); 0 stands for NULL in a user_id column
NumUsers == 2
Users == 1..NumUsers
NullUser == 0

\* the transactions table holds at most MaxTx rows in the model
MaxTx == 2

\* dates are (month, day) with months counted from some epoch; Today is
\* the day all calls of a run happen on
Date(m, d) == [month |-> m, day |-> d]
DateLeq(a, b) == a.month < b.month \/ (a.month = b.month /\ a.day <= b.day)
Today == Date(12, 2)

\* date.today().replace(day=1)
MonthStart(d) == Date(d.month, 1)

(***************************************************************************)
(* State                                                                   *)
(***************************************************************************)
VARIABLES
  categorizer_model,   \* ExpenseCategorizer.model
  retrain_pc,          \* where a running ExpenseCategorizer.retrain call is
  predictArg,          \* argument of the last direct predict call
  predictResult,       \* (category, confidence) it returned
  transactions,        \* table transactions, in rowid order
  last_tx_id,          \* AUTOINCREMENT counter of transactions
  budgets,             \* table budgets, in rowid order
  settings,            \* table settings, key gemini_api_key: user -> value
  assistant_model,     \* AIAssistant.model is set
  call,                \* the last process_message call: its arguments, what
                       \* the remote assistant did and the path it took
  reply,               \* what the last process_message call returned
  forecast,            \* what the last predict_next_month_expenses call returned
  budget_status,       \* what the last get_budget_status call returned
  alerts,              \* what the last detect_overspending call returned
  budget_form,         \* the last submission of the Set Budget form
  recommendations      \* what the last get_recommendations call returned

vars == <<categorizer_model, retrain_pc, predictArg, predictResult, transactions,
          last_tx_id, budgets, settings, assistant_model, call, reply, forecast,
          budget_status, alerts, budget_form, recommendations>>

catVars == <<categorizer_model, retrain_pc, predictArg, predictResult>>
dbVars == <<transactions, last_tx_id, budgets>>
chatVars == <<settings, assistant_model, call, reply>>
reportVars == <<forecast, budget_status, alerts, budget_form, recommendations>>

(***************************************************************************)
(* Storage (database/db_manager.py)                                        *)
(***************************************************************************)
\* str.title / str.upper on one character
LowerToUpper ==
  [c \in Letters |->
     CHOOSE u \in DOMAIN UpperToLower : UpperToLower[u] = c]

IsLetter(c) == c \in Letters \/ c \in DOMAIN UpperToLower

\* str.title: a letter that follows a letter is lower-cased, any other
\* letter is upper-cased
Title(s) ==
  [i \in 1..Len(s) |->
     IF i > 1 /\ IsLetter(s[i - 1]) THEN LowerChar(s[i])
     ELSE IF s[i] \in Letters THEN LowerToUpper[s[i]] ELSE s[i]]

\* _seed_categories: (name, type) of the default categories
default_categories ==
  << [name |-> "Food & Dining", type |-> "expense"],
     [name |-> "Transport",     type |-> "expense"],
     [name |-> "Entertainment", type |-> "expense"],
     [name |-> "Utilities",     type |-> "expense"],
     [name |-> "Shopping",      type |-> "expense"],
     [name |-> "Healthcare",    type |-> "expense"],
     [name |-> "Education",     type |-> "expense"],
     [name |-> "Savings",       type |-> "expense"],
     [name |-> "Other",         type |-> "expense"],
     [name |-> "Salary",        type |-> "income"],
     [name |-> "Freelance",     type |-> "income"],
     [name |-> "Investment",    type |-> "income"],
     [name |-> "Gift",          type |-> "income"],
     [name |-> "Other Income",  type |-> "income"] >>

\* the characters of a category name
NameText ==
  [n \in {default_categories[i].name : i \in 1..Len(default_categories)} |->
     CASE n = "Food & Dining" -> <<"F","o","o","d"," ","&"," ","D","i","n","i","n","g">>
       [] n = "Transport"     -> <<"T","r","a","n","s","p","o","r","t">>
       [] n = "Entertainment" -> <<"E","n","t","e","r","t","a","i","n","m","e","n","t">>
       [] n = "Utilities"     -> <<"U","t","i","l","i","t","i","e","s">>
       [] n = "Shopping"      -> <<"S","h","o","p","p","i","n","g">>
       [] n = "Healthcare"    -> <<"H","e","a","l","t","h","c","a","r","e">>
       [] n = "Education"     -> <<"E","d","u","c","a","t","i","o","n">>
       [] n = "Savings"       -> <<"S","a","v","i","n","g","s">>
       [] n = "Other"         -> <<"O","t","h","e","r">>
       [] n = "Salary"        -> <<"S","a","l","a","r","y">>
       [] n = "Freelance"     -> <<"F","r","e","e","l","a","n","c","e">>
       [] n = "Investment"    -> <<"I","n","v","e","s","t","m","e","n","t">>
       [] n = "Gift"          -> <<"G","i","f","t">>
       [] n = "Other Income"  -> <<"O","t","h","e","r"," ","I","n","c","o","m","e">>]

\* Table categories after __init__ (the global rows, user_id NULL) and the
\* registration of the users (their own copies), in rowid order.
categories ==
  [id \in 1..(Len(default_categories) * (NumUsers + 1)) |->
     LET k == ((id - 1) % Len(default_categories)) + 1
         owner == (id - 1) \div Len(default_categories)
     IN  [id |-> id, name |-> default_categories[k].name,
          type |-> default_categories[k].type, user_id |-> owner]]

\* WHERE (user_id = ? OR user_id IS NULL)
VisibleTo(c, user_id) == c.user_id = user_id \/ c.user_id = NullUser

\* the order of the characters of the category names (their code points)
CharOrder ==
  <<" ", "&", "A","B","C","D","E","F","G","H","I","J","K","L","M","N","O","P",
    "Q","R","S","T","U","V","W","X","Y","Z", "a","b","c","d","e","f","g","h",
    "i","j","k","l","m","n","o","p","q","r","s","t","u","v","w","x","y","z">>

CharCode(c) == CHOOSE i \in 1..Len(CharOrder) : CharOrder[i] = c

\* a < b as strings (binary collation)
RECURSIVE TextLess(_, _)
TextLess(a, b) ==
  IF b = <<>> THEN FALSE
  ELSE IF a = <<>> THEN TRUE
  ELSE IF Head(a) = Head(b) THEN TextLess(Tail(a), Tail(b))
  ELSE CharCode(Head(a)) < CharCode(Head(b))

\* ORDER BY type, name ('expense' < 'income'); rows equal in both keys
\* keep their rowid order
CategoryBefore(a, b) ==
  \/ a.type = "expense" /\ b.type = "income"
  \/ a.type = b.type /\ TextLess(NameText[a.name], NameText[b.name])
  \/ a.type = b.type /\ a.name = b.name /\ a.id < b.id

\* the rows of S as a list in that order
RECURSIVE SortCategories(_)
SortCategories(S) ==
  IF S = {} THEN <<>>
  ELSE LET first == CHOOSE c \in S : \A x \in S \ {c} : CategoryBefore(c, x)
       IN  <<first>> \o SortCategories(S \ {first})

\* get_categories(category_type, user_id); category_type None = "any"
get_categories_query(category_type, user_id) ==
  SortCategories({categories[id] : id \in
     {i \in DOMAIN categories :
        /\ VisibleTo(categories[i], user_id)
        /\ category_type # "any" => categories[i].type = category_type}})

\* the categories never change in the model, so the listings are tabulated
CategoryListing ==
  [q \in {"any", "expense", "income"} \X Users |-> get_categories_query(q[1], q[2])]

get_categories(category_type, user_id) == CategoryListing[<<category_type, user_id>>]

\* the absent category row
NoCategory == [id |-> 0, name |-> None, type |-> None, user_id |-> NullUser]

\* get_category_by_name(name, user_id): cursor.fetchone() of the rows with
\* that name visible to the user.  The query has no ORDER BY; SQLite runs
\* `name = ? AND (user_id = ? OR user_id IS NULL)` as two searches of the
\* (name, user_id) index, `user_id = ?` first, so the user's own row comes
\* before the global one
get_category_by_name(name, user_id) ==
  LET ids == {i \in DOMAIN categories :
                categories[i].name = name /\ VisibleTo(categories[i], user_id)}
      own == {i \in ids : categories[i].user_id = user_id}
  IN  IF ids = {} THEN NoCategory
      ELSE IF own # {} THEN categories[CHOOSE i \in own : TRUE]
      ELSE categories[CHOOSE i \in ids : \A j \in ids : i <= j]

\* a row of transactions
Row(id, amount, description, category_id, transaction_type, date, user_id) ==
  [id |-> id, amount |-> amount, description |-> description,
   category_id |-> category_id, transaction_type |-> transaction_type,
   date |-> date, user_id |-> user_id]

\* add_transaction: the table and the id counter after the INSERT
add_transaction(txs, seq, amount, description, category_id, transaction_type, transaction_date, user_id) ==
  [txs |-> Append(txs, Row(seq + 1, amount, description, category_id,
                           transaction_type, transaction_date, user_id)),
   seq |-> seq + 1]

\* SUM(amount) over the rows of txs at the positions in P
RECURSIVE SumAmounts(_, _)
SumAmounts(txs, P) ==
  IF P = {} THEN 0
  ELSE LET i == CHOOSE j \in P : TRUE
       IN  txs[i].amount + SumAmounts(txs, P \ {i})

\* no lower limit on the date
NoDate == Date(0, 0)

\* get_summary(user_id, start_date); the assistant never passes an end date
get_summary(txs, user_id, start_date) ==
  LET Of(type) == {i \in 1..Len(txs) :
                     /\ txs[i].user_id = user_id
                     /\ txs[i].transaction_type = type
                     /\ DateLeq(start_date, txs[i].date)}
      income == SumAmounts(txs, Of("income"))
      expense == SumAmounts(txs, Of("expense"))
  IN  [income |-> income, expense |-> expense, balance |-> income - expense]

\* get_category_breakdown(user_id, start_date), transaction_type 'expense':
\* one item per category with a matching row, ORDER BY total DESC; SQL leaves
\* the order of equal totals open, SQLite 3.40 returns them highest id first
get_category_breakdown(txs, user_id, start_date) ==
  LET Of(cid) == {i \in 1..Len(txs) :
                     /\ txs[i].user_id = user_id
                     /\ txs[i].transaction_type = "expense"
                     /\ txs[i].category_id = cid
                     /\ DateLeq(start_date, txs[i].date)}
      cids == {txs[i].category_id : i \in 1..Len(txs)}
      Item(cid) == [id |-> cid, name |-> categories[cid].name,
                    total |-> SumAmounts(txs, Of(cid)), count |-> Cardinality(Of(cid))]
      Before(a, b) == a.total > b.total \/ (a.total = b.total /\ a.id > b.id)
      items == {Item(cid) : cid \in {c \in cids : Of(c) # {}}}
  IN  [i \in 1..Cardinality(items) |->
         CHOOSE c \in items : Cardinality({x \in items : Before(x, c)}) = i - 1]

\* the first n elements of s
RECURSIVE Take(_, _)
Take(s, n) == IF n = 0 \/ s = <<>> THEN <<>> ELSE <<Head(s)>> \o Take(Tail(s), n - 1)

\* get_transactions(user_id, limit): ORDER BY date DESC, created_at DESC;
\* of the rows of one date the newest comes first
get_transactions(txs, user_id, limit) ==
  LET mine == {i \in 1..Len(txs) : txs[i].user_id = user_id}
      Before(i, j) ==
        \/ ~DateLeq(txs[i].date, txs[j].date)
        \/ txs[i].date = txs[j].date /\ i > j
      sorted == [k \in 1..Cardinality(mine) |->
                   txs[CHOOSE i \in mine :
                         Cardinality({j \in mine : Before(j, i)}) = k - 1]]
  IN  Take(sorted, limit)

\* a set_budget that keeps the limit of an existing row
set_budget_once(bs, category_id, user_id, monthly_limit) ==
  IF \E i \in 1..Len(bs) : bs[i].category_id = category_id /\ bs[i].user_id = user_id
  THEN bs
  ELSE Append(bs, [category_id |-> category_id, user_id |-> user_id,
                   monthly_limit |-> monthly_limit])

\* set_budget: INSERT ... ON CONFLICT(category_id, user_id) DO UPDATE
set_budget(bs, category_id, user_id, monthly_limit) ==
  IF \E i \in 1..Len(bs) : bs[i].category_id = category_id /\ bs[i].user_id = user_id
  THEN [i \in 1..Len(bs) |->
          IF bs[i].category_id = category_id /\ bs[i].user_id = user_id
          THEN [bs[i] EXCEPT !.monthly_limit = monthly_limit]
          ELSE bs[i]]
  ELSE Append(bs, [category_id |-> category_id, user_id |-> user_id,
                   monthly_limit |-> monthly_limit])

\* get_setting('gemini_api_key', user_id): the value, None without a row
get_setting(user_id) == settings[user_id]

(***************************************************************************)
(* The handlers of the assistant (ml/assistant.py)                         *)
(*                                                                         *)
(* A handler is an operator from the tables it reads to an outcome: the    *)
(* tables after it, the dictionary it returns and whether it raised.       *)
(***************************************************************************)
Reply(action, response, data) ==
  [action |-> action, response |-> response, data |-> data]

NoReply == Reply(None, None, <<>>)

Outcome(txs, seq, bs, r, raised) ==
  [txs |-> txs, seq |-> seq, budgets |-> bs, reply |-> r, raised |-> raised]

\* amounts handed to a handler: a number (hundredths), a string holding a
\* number, or null; the deterministic path always hands over a number
Numeric(v) == [kind |-> "number", v |-> v]
NumericString(v) == [kind |-> "string", v |-> v]
Null == [kind |-> "null", v |-> 0]

\* What the remote assistant does with a prompt:
\*   error    generate_content or response.text raises (network, timeout)
\*   text     an answer with no { ... } fragment
\*   bad_json a fragment json.loads rejects
\*   json     a fragment that parses to a dictionary; a key that is not
\*            there is Missing, a key holding null is Null resp. NoText
Missing == [kind |-> "missing", v |-> 0]
MissingText == <<"Missing">>
RemoteError == [kind |-> "error", action |-> None, amount |-> Missing, description |-> MissingText]
RemoteText == [kind |-> "text", action |-> None, amount |-> Missing, description |-> MissingText]
RemoteBadJson == [kind |-> "bad_json", action |-> None, amount |-> Missing, description |-> MissingText]
RemoteJson(action, amount, description) ==
  [kind |-> "json", action |-> action, amount |-> amount, description |-> description]

NoRemote == [kind |-> "none", action |-> None, amount |-> Missing, description |-> MissingText]

\* the answers of the remote assistant in the bounded runs
RemoteOutcomes ==
  { RemoteError, RemoteText, RemoteBadJson,
    RemoteJson("add_expense", Numeric(50000), <<"g","r","o","c","e","r","i","e","s">>),
    RemoteJson("add_income", Numeric(500000), <<"f","r","e","e","l","a","n","c","e">>),
    RemoteJson("add_expense", Numeric(0), <<"t","e","a">>),
    RemoteJson("add_expense", Numeric(-5000), <<"t","e","a">>),
    RemoteJson("add_expense", NumericString(50000), <<"g","r","o","c","e","r","i","e","s">>),
    RemoteJson("add_expense", Null, <<"t","e","a">>),
    RemoteJson("add_expense", Missing, <<"t","e","a">>),
    RemoteJson("add_expense", Numeric(50000), MissingText),
    RemoteJson("add_expense", Numeric(50000), NoText),
    RemoteJson("add_income", Numeric(500000), NoText),
    RemoteJson("add_expense", Numeric(30000), <<"c","o","n","s","u","l","t","i","n","g">>),
    RemoteJson("chat", Missing, MissingText) }

(***************************************************************************)
(* Inputs of the categorizer                                               *)
(***************************************************************************)
\* every keyword of the table
Keywords ==
  UNION {{TRAINING_DATA[i].keywords[k] : k \in 1..Len(TRAINING_DATA[i].keywords)} :
         i \in 1..Len(TRAINING_DATA)}

\* further descriptions: empty, blank, mixed case with punctuation, a text
\* with keywords of two categories, texts with no keyword
ExtraDescriptions ==
  { <<>>, <<" "," "," ">>,
    <<"G","r","o","c","e","r","i","e","s","!">>,
    <<"u","b","e","r"," ","t","o"," ","c","i","n","e","m","a">>,
    <<"c","i","n","e","m","a"," ","b","y"," ","u","b","e","r">>,
    <<"x","y","z">>,
    <<"E","x","p","e","n","s","e">> }

Descriptions == Keywords \cup ExtraDescriptions \cup {NoText}

\* The fitted classifiers of the bounded runs: each puts every text that no
\* keyword decides into one class, an expense or an income category.
ModelLabels == {"Food & Dining", "Salary"}

FittedClassifiers == {[fitted |-> TRUE, label |-> l] : l \in ModelLabels}

\* the classifiers a run can have
Classifiers == FittedClassifiers \cup {UnsetClassifier}

\* the values of table
Range(table) == {table[x] : x \in DOMAIN table}

\* the descriptions the handlers of the assistant hand to predict
HandlerDescriptions ==
  {r.text : r \in Range(RouteOf)} \cup ({r.description : r \in RemoteOutcomes} \ {MissingText})

\* categorizer.predict for them, tabulated for each classifier
Predictions ==
  [clf \in Classifiers |-> [d \in HandlerDescriptions |-> predict(d, clf)]]

\* Python's truth of a text: None and '' are false
Truthy(t) == t # NoText /\ t # <<>>

\* next((c for c in cs if part in c['name']), cs[0])
FirstNamed(cs, part) ==
  LET hits == {i \in 1..Len(cs) : Contains(NameText[cs[i].name], part)}
  IN  IF hits = {} THEN cs[1] ELSE cs[CHOOSE i \in hits : \A j \in hits : i <= j]

\* `x if x else fallback` on a category row
CategoryOr(by_name, fallback) == IF by_name = NoCategory THEN fallback ELSE by_name

\* `description.title() if description else default`
StoredDescription(description, default) ==
  IF Truthy(description) THEN Title(description) ELSE default

\* the end of _handle_add_expense and _handle_add_income: `ins` is the
\* database after add_transaction; the response f"...{amount:,.2f}..."
\* raises ValueError for an amount that is a string
Added(ins, bs, action, amount, category, description) ==
  IF amount.kind = "string"
  THEN Outcome(ins.txs, ins.seq, bs, NoReply, TRUE)
  ELSE Outcome(ins.txs, ins.seq, bs,
               Reply(action, action,
                     <<"transaction", ins.seq, amount.v, category.name, description>>),
               FALSE)

\* add_transaction and what follows it; INSERT of a null amount violates
\* amount REAL NOT NULL and raises sqlite3.IntegrityError
Add(txs, seq, bs, action, transaction_type, amount, description, stored, category, user_id) ==
  IF amount.kind = "null"
  THEN Outcome(txs, seq, bs, NoReply, TRUE)
  ELSE Added(add_transaction(txs, seq, amount.v, stored, category.id,
                             transaction_type, Today, user_id),
             bs, action, amount, category, description)

\* the category _handle_add_expense stores for a predicted name
expense_category(predicted, user_id) ==
  CategoryOr(get_category_by_name(predicted, user_id),
             FirstNamed(get_categories("expense", user_id), <<"O","t","h","e","r">>))

\* _handle_add_expense(data, user_id); categorizer is self.categorizer.predict
handle_add_expense(txs, seq, bs, categorizer, amount, description, user_id) ==
  Add(txs, seq, bs, "expense_added", "expense", amount, description,
      StoredDescription(description, <<"E","x","p","e","n","s","e">>),
      expense_category(categorizer[description][1], user_id), user_id)

\* `not category or category['type'] != 'income'`
NotIncome(by_name) == by_name = NoCategory \/ by_name.type # "income"

\* the fallback of _handle_add_income; it is not evaluated for a None description
income_fallback(categories_, description) ==
  IF Contains(Lower(description), <<"s","a","l","a","r","y">>)
  THEN FirstNamed(categories_, <<"S","a","l","a","r","y">>)
  ELSE categories_[1]

income_category(by_name, description, user_id) ==
  IF NotIncome(by_name)
  THEN income_fallback(get_categories("income", user_id), description)
  ELSE by_name

\* _handle_add_income with the row get_category_by_name found; in the
\* fallback description.lower() raises AttributeError for None
AddIncome(txs, seq, bs, by_name, amount, description, user_id) ==
  IF NotIncome(by_name) /\ description = NoText
  THEN Outcome(txs, seq, bs, NoReply, TRUE)
  ELSE Add(txs, seq, bs, "income_added", "income", amount, description,
           StoredDescription(description, <<"I","n","c","o","m","e">>),
           income_category(by_name, description, user_id), user_id)

\* _handle_add_income(data, user_id)
handle_add_income(txs, seq, bs, categorizer, amount, description, user_id) ==
  AddIncome(txs, seq, bs, get_category_by_name(categorizer[description][1], user_id),
            amount, description, user_id)

\* _handle_check_balance(user_id)
handle_check_balance(txs, seq, bs, user_id) ==
  Outcome(txs, seq, bs,
          Reply("balance_checked", "balance",
                <<"summary", get_summary(txs, user_id, MonthStart(Today)),
                  get_summary(txs, user_id, NoDate).balance>>),
          FALSE)

\* sum(item['total'] for item in breakdown)
RECURSIVE SumTotals(_)
SumTotals(breakdown) ==
  IF breakdown = <<>> THEN 0 ELSE Head(breakdown).total + SumTotals(Tail(breakdown))

Spending(txs, seq, bs, breakdown) ==
  IF breakdown = <<>>
  THEN Outcome(txs, seq, bs, Reply("spending_checked", "no_spending", <<>>), FALSE)
  ELSE Outcome(txs, seq, bs,
               Reply("spending_checked", "spending",
                     <<"breakdown", SumTotals(breakdown), breakdown>>),
               FALSE)

\* _handle_check_spending(message, user_id)
handle_check_spending(txs, seq, bs, user_id) ==
  Spending(txs, seq, bs, get_category_breakdown(txs, user_id, MonthStart(Today)))

Recent(txs, seq, bs, recent) ==
  IF recent = <<>>
  THEN Outcome(txs, seq, bs, Reply("transactions_listed", "no_transactions", <<>>), FALSE)
  ELSE Outcome(txs, seq, bs, Reply("transactions_listed", "transactions", <<"rows", recent>>),
               FALSE)

\* _handle_recent_transactions(user_id)
handle_recent_transactions(txs, seq, bs, user_id) ==
  Recent(txs, seq, bs, get_transactions(txs, user_id, 5))

\* the last category whose lower-cased name contains the lower-cased text
MatchingCategoryLast(categories_, category_name) ==
  LET hits == {i \in 1..Len(categories_) :
                 Contains(Lower(NameText[categories_[i].name]), Lower(category_name))}
  IN  IF hits = {} THEN NoCategory
      ELSE categories_[CHOOSE i \in hits : \A j \in hits : i >= j]

\* the first category whose lower-cased name contains the lower-cased text;
\* NoCategory when there is none
MatchingCategory(categories_, category_name) ==
  LET hits == {i \in 1..Len(categories_) :
                 Contains(Lower(NameText[categories_[i].name]), Lower(category_name))}
  IN  IF hits = {} THEN NoCategory
      ELSE categories_[CHOOSE i \in hits : \A j \in hits : i <= j]

\* mutant: a text that names no category puts the budget on the first
\* expense category and still answers category_not_found
SetBudgetAnyway(txs, seq, bs, amount, category, user_id) ==
  IF category = NoCategory
  THEN Outcome(txs, seq,
               set_budget(bs, get_categories("expense", user_id)[1].id, user_id, amount),
               Reply("category_not_found", "category_not_found", <<>>), FALSE)
  ELSE Outcome(txs, seq, set_budget(bs, category.id, user_id, amount),
               Reply("budget_set", "budget_set", <<"budget", category.name, amount>>),
               FALSE)

SetBudget(txs, seq, bs, amount, category, user_id) ==
  IF category = NoCategory
  THEN Outcome(txs, seq, bs, Reply("category_not_found", "category_not_found", <<>>), FALSE)
  ELSE Outcome(txs, seq, set_budget(bs, category.id, user_id, amount),
               Reply("budget_set", "budget_set", <<"budget", category.name, amount>>),
               FALSE)

\* _handle_set_budget(data, user_id)
handle_set_budget(txs, seq, bs, amount, category_name, user_id) ==
  IF ~Truthy(category_name)
  THEN Outcome(txs, seq, bs, Reply("need_category", "need_category", <<>>), FALSE)
  ELSE SetBudget(txs, seq, bs, amount,
                 MatchingCategory(get_categories("expense", user_id), category_name),
                 user_id)

\* the number of replies in self.greetings
NumGreetings == 3

\* greetings that end in a reply made up for the occasion
greetings_improvised ==
  [g \in 1..NumGreetings |-> CASE g = 1 -> "greeting_hello" [] g = 2 -> "greeting_hi_there"
                               [] g = 3 -> "greeting_improvised"]

\* self.greetings: random.choice picks one of the three
greetings == [g \in 1..NumGreetings |->
                CASE g = 1 -> "greeting_hello" [] g = 2 -> "greeting_hi_there"
                  [] g = 3 -> "greeting_hey"]

\* the branches of _process_with_regex for the decisions in r; g is the
\* greeting random.choice picks
Dispatch(r, txs, seq, bs, categorizer, user_id, g) ==
  CASE r.handler = "greeting" ->
         Outcome(txs, seq, bs, Reply("greeting", greetings[g], <<>>), FALSE)
    [] r.handler = "help" -> Outcome(txs, seq, bs, Reply("help", "help", <<>>), FALSE)
    [] r.handler = "thanks" -> Outcome(txs, seq, bs, Reply("thanks", "welcome", <<>>), FALSE)
    [] r.handler = "add_expense" ->
         handle_add_expense(txs, seq, bs, categorizer, Numeric(r.amount), r.text, user_id)
    [] r.handler = "add_income" ->
         handle_add_income(txs, seq, bs, categorizer, Numeric(r.amount), r.text, user_id)
    [] r.handler = "check_balance" -> handle_check_balance(txs, seq, bs, user_id)
    [] r.handler = "check_spending" -> handle_check_spending(txs, seq, bs, user_id)
    [] r.handler = "recent_transactions" -> handle_recent_transactions(txs, seq, bs, user_id)
    [] r.handler = "set_budget" ->
         handle_set_budget(txs, seq, bs, r.amount, r.text, user_id)
    [] r.handler = "fallback" ->
         Outcome(txs, seq, bs, Reply("fallback", "fallback", <<>>), FALSE)

\* _process_with_regex(message, user_id); message is stripped and lower-cased
process_with_regex(txs, seq, bs, categorizer, message, user_id, g) ==
  Dispatch(RouteOf[message], txs, seq, bs, categorizer, user_id, g)

\* {'response': text, 'action': 'chat'}
Chat(txs, seq, bs) == Outcome(txs, seq, bs, Reply("chat", "remote_text", <<>>), FALSE)

\* the inner try of _process_with_gemini around a handler: what it raises is
\* swallowed and the text is returned; what it committed stays
Swallow(handled, bs) ==
  IF handled.raised THEN Chat(handled.txs, handled.seq, bs) ELSE handled

\* the fragment handed to the handlers with its description dropped
js_data_without_description(txs, seq, bs, categorizer, user_id, remote) ==
  IF remote.action \notin {"add_expense", "add_income"} THEN Chat(txs, seq, bs)
  ELSE IF remote.amount = Missing \/ remote.description = MissingText
  THEN Chat(txs, seq, bs)
  ELSE IF remote.action = "add_expense"
  THEN Swallow(handle_add_expense(txs, seq, bs, categorizer, remote.amount,
                                  NoText, user_id), bs)
  ELSE Swallow(handle_add_income(txs, seq, bs, categorizer, remote.amount,
                                 NoText, user_id), bs)

\* the inner try of _process_with_gemini on a fragment json.loads accepted
js_data(txs, seq, bs, categorizer, user_id, remote) ==
  IF remote.action \notin {"add_expense", "add_income"} THEN Chat(txs, seq, bs)
  ELSE IF remote.amount = Missing \/ remote.description = MissingText
  THEN \* KeyError, swallowed by the inner except
       Chat(txs, seq, bs)
  ELSE IF remote.action = "add_expense"
  THEN Swallow(handle_add_expense(txs, seq, bs, categorizer, remote.amount,
                                  remote.description, user_id), bs)
  ELSE Swallow(handle_add_income(txs, seq, bs, categorizer, remote.amount,
                                 remote.description, user_id), bs)

\* _process_with_gemini without its outer except: the error of the remote
\* request reaches the caller
process_with_gemini_propagating(txs, seq, bs, categorizer, user_id, remote, regex) ==
  CASE remote.kind = "error" -> Outcome(txs, seq, bs, NoReply, TRUE)
    [] remote.kind \in {"text", "bad_json"} -> Chat(txs, seq, bs)
    [] remote.kind = "json" -> js_data(txs, seq, bs, categorizer, user_id, remote)

\* mutant: a fragment that was handled does not end the call, the message
\* goes on to _process_with_regex and what that persists is stored as well
process_with_gemini_then_regex(txs, seq, bs, categorizer, user_id, remote, regex) ==
  CASE remote.kind = "error" -> regex
    [] remote.kind \in {"text", "bad_json"} -> Chat(txs, seq, bs)
    [] remote.kind = "json" ->
         LET handled == js_data(txs, seq, bs, categorizer, user_id, remote)
         IN  [handled EXCEPT
                !.txs = @ \o SubSeq(regex.txs, Len(txs) + 1, Len(regex.txs))]

\* _process_with_gemini(message, user_id) when the remote assistant does
\* `remote`; regex is what _process_with_regex(message, user_id) returns
process_with_gemini(txs, seq, bs, categorizer, user_id, remote, regex) ==
  CASE remote.kind = "error" -> regex
    [] remote.kind \in {"text", "bad_json"} -> Chat(txs, seq, bs)
    [] remote.kind = "json" -> js_data(txs, seq, bs, categorizer, user_id, remote)

(***************************************************************************)
(* Forecast (database/db_manager.py get_monthly_trends, ml/predictor.py)   *)
(***************************************************************************)
\* date('now', '-N months'): the same day N months earlier
MonthsBefore(d, months) == Date(d.month - months, d.day)

\* the rows of user_id dated on or after the cutoff
TrendRows(txs, user_id, months) ==
  {i \in 1..Len(txs) : /\ txs[i].user_id = user_id
                       /\ DateLeq(MonthsBefore(Today, months), txs[i].date)}

\* one pivoted row of get_monthly_trends: SUM(amount) of the month by
\* transaction_type, 0 where the month has no row of the type
MonthlyAggregate(txs, P, month) ==
  [month |-> month,
   income |-> SumAmounts(txs, {i \in P : /\ txs[i].date.month = month
                                        /\ txs[i].transaction_type = "income"}),
   expense |-> SumAmounts(txs, {i \in P : /\ txs[i].date.month = month
                                         /\ txs[i].transaction_type = "expense"})]

\* GROUP BY month ... ORDER BY month, pivoted: one aggregate for each month
\* of S, oldest first
RECURSIVE Pivot(_, _, _)
Pivot(txs, P, S) ==
  IF S = {} THEN <<>>
  ELSE LET month == CHOOSE m \in S : \A o \in S : m <= o
       IN  <<MonthlyAggregate(txs, P, month)>> \o Pivot(txs, P, S \ {month})

MonthsIn(txs, P) == {txs[i].date.month : i \in P}

\* get_monthly_trends(user_id, months): the frame, as the sequence of its rows
get_monthly_trends(txs, user_id, months) ==
  Pivot(txs, TrendRows(txs, user_id, months),
        MonthsIn(txs, TrendRows(txs, user_id, months)))

\* np.array([1, 1.5, 2, 2.5, 3, 3.5]), doubled to stay in the integers; the
\* normalisation weights / weights.sum() cancels the factor
weights_claimed == <<4, 5, 6, 7, 8, 9>>
weights == <<2, 3, 4, 5, 6, 7>>

\* weights[:n]
Truncate(w, n) == SubSeq(w, 1, IF n < Len(w) THEN n ELSE Len(w))

RECURSIVE SumSeq(_)
SumSeq(q) == IF q = <<>> THEN 0 ELSE Head(q) + SumSeq(Tail(q))

RECURSIVE WeightedSum(_, _)
WeightedSum(w, values) ==
  IF w = <<>> THEN 0 ELSE Head(w) * Head(values) + WeightedSum(Tail(w), Tail(values))

\* round(num / den, 2) for an amount num / den in hundredths, den > 0: the
\* nearest hundredth, a tie going to the even one
RoundDiv(num, den) ==
  LET q == num \div den
      r == num - q * den
  IN  IF 2 * r < den THEN q
      ELSE IF 2 * r > den THEN q + 1
      ELSE IF q % 2 = 0 THEN q ELSE q + 1

Column(df, name) == [i \in 1..Len(df) |-> df[i][name]]

\* df[...].tail(3) and df[...].head(3)
TailN(q, n) == IF Len(q) <= n THEN q ELSE SubSeq(q, Len(q) - n + 1, Len(q))
HeadN(q, n) == IF Len(q) <= n THEN q ELSE SubSeq(q, 1, n)

\* the (older sum, recent sum) pairs of the histories below at which the
\* doubles disagree with the reals: the recent mean is 0.9 times the older
\* mean and the rounded product older * 0.9 lies above it (400 / 3 * 0.9 is
\* 120.00000000000001); older * 1.1 has no such pair among them
DoubleBelow == {<<40000, 36000>>}

\* recent > older * 1.1 / recent < older * 0.9 on the means of three points
\* each, as comparisons of ten times the sums where the doubles agree with
\* the reals
Trend(expenses) ==
  IF Len(expenses) < 3 THEN "insufficient_data"
  ELSE IF 10 * SumSeq(TailN(expenses, 3)) > 11 * SumSeq(HeadN(expenses, 3))
  THEN "increasing"
  ELSE IF \/ 10 * SumSeq(TailN(expenses, 3)) < 9 * SumSeq(HeadN(expenses, 3))
          \/ <<SumSeq(HeadN(expenses, 3)), SumSeq(TailN(expenses, 3))>> \in DoubleBelow
  THEN "decreasing"
  ELSE "stable"

Confidence(n) == IF n >= 5 THEN "high" ELSE IF n >= 3 THEN "medium" ELSE "low"

\* _get_prediction_message(trend, expense, income): the sentence chosen by
\* the trend and the expense it quotes, rounded to whole units ({:,.0f})
get_prediction_message(trend, num, den) ==
  IF trend = "insufficient_data" THEN <<"add_more_transactions">>
  ELSE <<trend, RoundDiv(num, 100 * den)>>

NoForecast == [error |-> None]

\* np.average(a, weights=w) with shapes that differ raises TypeError
Raises(error) == [error |-> error]

\* the dictionary returned with fewer than two aggregates
Sentinel ==
  [predicted_expense |-> 0, predicted_income |-> 0, confidence |-> "low",
   trend |-> "insufficient_data", message |-> <<"not_enough_data">>]

Predicted(w, expenses, incomes) ==
  [predicted_expense |-> RoundDiv(WeightedSum(w, expenses), SumSeq(w)),
   predicted_income |-> RoundDiv(WeightedSum(w, incomes), SumSeq(w)),
   predicted_savings |-> RoundDiv(WeightedSum(w, incomes) - WeightedSum(w, expenses), SumSeq(w)),
   confidence |-> Confidence(Len(expenses)),
   trend |-> Trend(expenses),
   message |-> get_prediction_message(Trend(expenses), WeightedSum(w, expenses), SumSeq(w))]

\* predict_next_month_expenses on the frame df
predict_next_month(df) ==
  IF Len(df) < 2 THEN Sentinel
  ELSE IF Len(Truncate(weights, Len(df))) # Len(df) THEN Raises("TypeError")
  ELSE Predicted(Truncate(weights, Len(df)), Column(df, "expense"), Column(df, "income"))

predict_next_month_expenses(txs, user_id) ==
  predict_next_month(get_monthly_trends(txs, user_id, 6))

(***************************************************************************)
(* Alerts (database/db_manager.py get_budget_status, ml/predictor.py)      *)
(***************************************************************************)
\* spent / monthly_limit * 100 as the fraction <<numerator, denominator>>,
\* 0 when the limit is not positive
Percentage(spent, monthly_limit) ==
  IF monthly_limit > 0 THEN <<spent * 100, monthly_limit>> ELSE <<0, 1>>

\* percentage + 1 >= n
AtLeastWithinOne(percentage, n) == percentage[1] + percentage[2] >= n * percentage[2]

\* percentage >= n
AtLeast(percentage, n) == percentage[1] >= n * percentage[2]

\* one row of get_budget_status with the two derived fields
BudgetStatusItem(c, monthly_limit, spent) ==
  [id |-> c.id, name |-> c.name, monthly_limit |-> monthly_limit, spent |-> spent,
   remaining |-> monthly_limit - spent,
   percentage |-> Percentage(spent, monthly_limit)]

\* COALESCE(SUM(t.amount), 0) of the LEFT JOIN: the expenses of the user in
\* the category dated in the month
SpentIn(txs, cid, user_id, month) ==
  SumAmounts(txs, {i \in 1..Len(txs) : /\ txs[i].category_id = cid
                                       /\ txs[i].transaction_type = "expense"
                                       /\ txs[i].user_id = user_id
                                       /\ txs[i].date.month = month})

\* b.monthly_limit of the LEFT JOIN; UNIQUE(category_id, user_id) leaves at
\* most one row
LimitOf(bs, cid, user_id) ==
  bs[CHOOSE i \in 1..Len(bs) : bs[i].category_id = cid /\ bs[i].user_id = user_id].monthly_limit

\* the rows for the categories of S, GROUP BY c.id, in category id order
RECURSIVE StatusRows(_, _, _, _)
StatusRows(bs, txs, user_id, S) ==
  IF S = {} THEN <<>>
  ELSE LET cid == CHOOSE c \in S : \A o \in S : c <= o
       IN  <<BudgetStatusItem(categories[cid], LimitOf(bs, cid, user_id),
                              SpentIn(txs, cid, user_id, Today.month))>>
           \o StatusRows(bs, txs, user_id, S \ {cid})

\* get_budget_status(user_id) for the current month: the expense categories
\* visible to the user that have a budget row of the user
get_budget_status(bs, txs, user_id) ==
  StatusRows(bs, txs, user_id,
             {cid \in DOMAIN categories :
                /\ VisibleTo(categories[cid], user_id)
                /\ categories[cid].type = "expense"
                /\ \E i \in 1..Len(bs) : bs[i].category_id = cid /\ bs[i].user_id = user_id})

Alert(category, type, severity, message, percentage) ==
  [category |-> category, type |-> type, severity |-> severity,
   message |-> message, percentage |-> percentage]

\* a first loop that warns only above 80 percent
RECURSIVE BudgetAlertsAbove(_)
BudgetAlertsAbove(status) ==
  IF status = <<>> THEN <<>>
  ELSE (IF AtLeast(Head(status).percentage, 100)
        THEN <<Alert(Head(status).name, "budget_exceeded", "high",
                     <<"exceeded", Head(status).spent, Head(status).monthly_limit>>,
                     Head(status).percentage)>>
        ELSE IF Head(status).percentage[1] > 80 * Head(status).percentage[2]
        THEN <<Alert(Head(status).name, "budget_warning", "medium",
                     <<"approaching", Head(status).percentage>>,
                     Head(status).percentage)>>
        ELSE <<>>)
       \o BudgetAlertsAbove(Tail(status))

\* the first loop of detect_overspending over the rows of budget_status
RECURSIVE BudgetAlerts(_)
BudgetAlerts(status) ==
  IF status = <<>> THEN <<>>
  ELSE (IF AtLeast(Head(status).percentage, 100)
        THEN <<Alert(Head(status).name, "budget_exceeded", "high",
                     <<"exceeded", Head(status).spent, Head(status).monthly_limit>>,
                     Head(status).percentage)>>
        ELSE IF AtLeast(Head(status).percentage, 80)
        THEN <<Alert(Head(status).name, "budget_warning", "medium",
                     <<"approaching", Head(status).percentage>>,
                     Head(status).percentage)>>
        ELSE <<>>)
       \o BudgetAlerts(Tail(status))

\* a second loop that does not look at the names already in alerts
RECURSIVE SpendingAlertsAll(_, _, _, _)
SpendingAlertsAll(alerts_, breakdown, sum, n) ==
  IF breakdown = <<>> THEN alerts_
  ELSE SpendingAlertsAll(
         IF 2 * n * Head(breakdown).total > sum
         THEN Append(alerts_, Alert(Head(breakdown).name, "high_spending", "low",
                                    <<"high_spending", Head(breakdown).total>>, <<0, 1>>))
         ELSE alerts_,
         Tail(breakdown), sum, n)

\* the second loop: cat['total'] > avg_monthly_expense * 0.5 with the
\* average sum / n of the expense column, as 2 * n * total > sum; a name
\* already in alerts is skipped
RECURSIVE SpendingAlerts(_, _, _, _)
SpendingAlerts(alerts_, breakdown, sum, n) ==
  IF breakdown = <<>> THEN alerts_
  ELSE SpendingAlerts(
         IF /\ 2 * n * Head(breakdown).total > sum
            /\ \A i \in 1..Len(alerts_) : alerts_[i].category # Head(breakdown).name
         THEN Append(alerts_, Alert(Head(breakdown).name, "high_spending", "low",
                                    <<"high_spending", Head(breakdown).total>>, <<0, 1>>))
         ELSE alerts_,
         Tail(breakdown), sum, n)

\* the alerts after both loops; historical_df is get_monthly_trends(months=3)
Overspending(alerts_, breakdown, historical_df) ==
  IF historical_df = <<>> THEN alerts_
  ELSE SpendingAlerts(alerts_, breakdown, SumSeq(Column(historical_df, "expense")),
                      Len(historical_df))

\* detect_overspending(user_id)
detect_overspending(bs, txs, user_id) ==
  Overspending(BudgetAlerts(get_budget_status(bs, txs, user_id)),
               get_category_breakdown(txs, user_id, MonthStart(Today)),
               get_monthly_trends(txs, user_id, 3))

(***************************************************************************)
(* Recommendations (ml/predictor.py get_recommendations)                   *)
(***************************************************************************)
\* get_budgets(user_id): the budgets of the user
get_budgets(bs, user_id) == SelectSeq(bs, LAMBDA b : b.user_id = user_id)

\* a recommendation: its title, the category a title names, its priority
Recommendation(title, about, priority) ==
  [title |-> title, about |-> about, priority |-> priority]

\* the (income, expense) pairs of the histories below whose savings ratio
\* (income - expense) / income * 100 is a multiple of ten in the reals and
\* lies below it in doubles: (1.0 - 0.8) / 1.0 * 100 is 19.999999999999996
\* and (1.0 - 0.9) / 1.0 * 100 is 9.999999999999998
RatioBelow == {<<100, 80>>, <<100, 90>>}

\* savings_ratio < n
RatioUnder(income, expense, n) ==
  \/ (income - expense) * 100 < n * income
  \/ (income - expense) * 100 = n * income /\ <<income, expense>> \in RatioBelow

\* Recommendation 1: savings ratio
SavingsRule(summary) ==
  IF summary.income > 0
  THEN IF RatioUnder(summary.income, summary.expense, 10)
       THEN <<Recommendation("Increase Your Savings", None, "high")>>
       ELSE IF ~RatioUnder(summary.income, summary.expense, 20)
       THEN <<Recommendation("Great Savings Rate!", None, "low")>>
       ELSE <<>>
  ELSE <<>>

\* Recommendation 2: top spending category; total is sum(c['total']) of the
\* breakdown, and top / total * 100 > 40 where the doubles agree with the reals
TopCategoryRule(breakdown, total) ==
  IF breakdown # <<>> /\ total > 0 /\ breakdown[1].total * 100 > 40 * total
  THEN <<Recommendation("Review Spending", breakdown[1].name, "medium")>>
  ELSE <<>>

\* Recommendation 3: budget setup
BudgetRule(budgets_) ==
  IF budgets_ = <<>> THEN <<Recommendation("Set Up Budgets", None, "medium")>> ELSE <<>>

\* Recommendation 4: spending trend
TrendRule(predictions) ==
  IF predictions.trend = "increasing"
  THEN <<Recommendation("Watch Your Spending Trend", None, "high")>> ELSE <<>>

\* Recommendation 5: emergency fund
EmergencyRule(summary) ==
  IF summary.balance > 0
  THEN <<Recommendation("Build Emergency Fund", None, "low")>> ELSE <<>>

\* the list get_recommendations returns
Returned(items) == [error |-> None, items |-> items]

\* the rules of get_recommendations on what it fetched; an exception of
\* predict_next_month_expenses leaves it before the first rule
Recommend(summary, breakdown, predictions, budgets_) ==
  IF "error" \in DOMAIN predictions THEN [error |-> predictions.error, items |-> <<>>]
  ELSE Returned(SavingsRule(summary)
                \o TopCategoryRule(breakdown, SumTotals(breakdown))
                \o BudgetRule(budgets_)
                \o TrendRule(predictions)
                \o EmergencyRule(summary))

get_recommendations(bs, txs, user_id) ==
  Recommend(get_summary(txs, user_id, MonthStart(Today)),
            get_category_breakdown(txs, user_id, MonthStart(Today)),
            predict_next_month_expenses(txs, user_id),
            get_budgets(bs, user_id))

NoResult == <<None, None>>

\* the tables of a fresh database with the users registered
InitStorage ==
  /\ transactions = <<>>
  /\ last_tx_id = 0
  /\ budgets = <<>>
  /\ settings = [u \in Users |-> None]

NoCall ==
  [user_id |-> NullUser, message |-> NoText, remote |-> NoRemote, path |-> None]

\* no page rendered yet: lists that no call returns
NoStatus == <<[id |-> 0]>>
NoAlerts == <<[category |-> None]>>
NoForm == [user_id |-> NullUser, category |-> None, budget_amount |-> 0]
NoAdvice == [error |-> "not_called", items |-> <<>>]

\* AIAssistant.__init__: no model yet; nothing has been asked
InitAssistant ==
  /\ assistant_model = FALSE
  /\ call = NoCall
  /\ reply = NoReply
  /\ forecast = NoForecast
  /\ budget_status = NoStatus
  /\ alerts = NoAlerts
  /\ budget_form = NoForm
  /\ recommendations = NoAdvice

\* ExpenseCategorizer.__init__: a model is loaded or trained
InitCategorizer == categorizer_model \in FittedClassifiers /\ retrain_pc = "idle"

(***************************************************************************)
(* The categorizer on its own                                              *)
(***************************************************************************)
InitCat ==
  /\ InitCategorizer
  /\ predictArg \in Descriptions
  /\ predictResult = NoResult
  /\ InitStorage
  /\ InitAssistant

\* one call predict(predictArg)
Predict ==
  /\ predictResult = NoResult
  /\ predictResult' = predict(predictArg, categorizer_model)
  /\ UNCHANGED <<categorizer_model, retrain_pc, predictArg, dbVars, chatVars, reportVars>>

NextCat == Predict

SpecCat == InitCat /\ [][NextCat]_vars

(***************************************************************************)
(* retrain next to predict calls of other threads (the categorizer is a    *)
(* st.cache_resource shared by the sessions)                               *)
(***************************************************************************)
\* retrain up to `self.model = Pipeline([...])`: the training data is
\* prepared and the attribute is bound to a new pipeline, not yet fitted
RetrainAssign ==
  /\ retrain_pc = "idle"
  /\ categorizer_model' = UnsetClassifier
  /\ retrain_pc' = "fit"
  /\ UNCHANGED <<predictArg, predictResult, dbVars, chatVars, reportVars>>

\* `self.model.fit(texts, labels)`: the pipeline bound to self.model is
\* fitted in place, or fit raises (a description of additional_data that is
\* no text) and retrain ends with the exception
RetrainFit ==
  /\ retrain_pc = "fit"
  /\ \/ categorizer_model' \in FittedClassifiers /\ retrain_pc' = "save"
     \/ categorizer_model' = categorizer_model /\ retrain_pc' = "idle"
  /\ UNCHANGED <<predictArg, predictResult, dbVars, chatVars, reportVars>>

\* `self._save_model()`: the file is written, or open/pickle.dump raises;
\* self.model is not touched
RetrainSave ==
  /\ retrain_pc = "save"
  /\ retrain_pc' = "idle"
  /\ UNCHANGED <<categorizer_model, predictArg, predictResult, dbVars, chatVars, reportVars>>

\* descriptions of the transaction form with no text in them
BlankDescriptions == {<<>>, <<" ">>, <<" "," "," ">>}

\* a predict call of another thread, at any point of the retrain
PredictNow ==
  \E description \in HandlerDescriptions \cup BlankDescriptions :
     /\ predictArg' = description
     /\ predictResult' = IF description \in HandlerDescriptions
                          THEN Predictions[categorizer_model][description]
                          ELSE predict(description, categorizer_model)
     /\ UNCHANGED <<categorizer_model, retrain_pc, dbVars, chatVars, reportVars>>

NextRetrain == RetrainAssign \/ RetrainFit \/ RetrainSave \/ PredictNow

\* a categorizer with a fitted model, no retrain running, nothing predicted
InitRetrain ==
  /\ InitCategorizer
  /\ predictArg = NoText
  /\ predictResult = NoResult
  /\ InitStorage
  /\ InitAssistant

SpecRetrain == InitRetrain /\ [][NextRetrain]_vars

(***************************************************************************)
(* The assistant (ml/assistant.py, process_message)                        *)
(***************************************************************************)
\* what is recorded as the reply when process_message raises
Raised == Reply("exception", None, <<>>)

\* `if self.api_key`: a stored value other than None and ''
KeySet(value) == value # None /\ value # ""

\* random.choice only runs for a greeting; elsewhere the pick is fixed
GreetingPicks(message) ==
  IF RouteOf[Normalize(message)].handler = "greeting" THEN 1..NumGreetings ELSE {1}

\* `if self.model: return self._process_with_gemini(...)`, else the result
\* of _process_with_regex, which is `regex`
Answer(model, txs, seq, bs, categorizer, user_id, remote, regex) ==
  IF model THEN process_with_gemini(txs, seq, bs, categorizer, user_id, remote, regex)
  ELSE regex

\* the state after a call that took `path` and ended in `out`
Return(user_id, message, remote, model, out) ==
  /\ transactions' = out.txs
  /\ last_tx_id' = out.seq
  /\ budgets' = out.budgets
  /\ assistant_model' = model
  /\ call' = [user_id |-> user_id, message |-> message, remote |-> remote,
              path |-> IF model THEN "gemini" ELSE "regex"]
  /\ reply' = IF out.raised THEN Raised ELSE out.reply
  /\ UNCHANGED <<catVars, settings, reportVars>>

\* process_message once self.model is decided
Process(user_id, message, remote, g, model) ==
  /\ model <=> remote # NoRemote
  /\ Return(user_id, message, remote, model,
            Answer(model, transactions, last_tx_id, budgets,
                   Predictions[categorizer_model], user_id, remote,
                   process_with_regex(transactions, last_tx_id, budgets,
                                      Predictions[categorizer_model], message,
                                      user_id, g)))

\* process_message(message, user_id).  construct_ok: genai.configure and
\* GenerativeModel(...) return (they are inside try/except-pass); remote: what
\* the remote assistant does when asked, NoRemote when it is not asked.
ProcessMessage(user_id, message, remote, g, construct_ok) ==
  /\ (assistant_model \/ ~KeySet(get_setting(user_id))) => construct_ok
  /\ g \in GreetingPicks(message)
  /\ Process(user_id, Normalize(message), remote, g,
             assistant_model \/ (KeySet(get_setting(user_id)) /\ construct_ok))

\* db.set_setting('gemini_api_key', value, user_id) from the settings page
set_setting(table, user_id, value) == [table EXCEPT ![user_id] = value]

SetSetting(user_id, value) ==
  /\ settings' = set_setting(settings, user_id, value)
  /\ UNCHANGED <<catVars, dbVars, assistant_model, call, reply, reportVars>>

\* a new AIAssistant(db, categorizer) replaces the old one (a script rerun)
NewAssistant ==
  /\ assistant_model' = FALSE
  /\ UNCHANGED <<catVars, dbVars, settings, call, reply, reportVars>>

InitChat ==
  /\ InitCategorizer
  /\ predictArg = NoText
  /\ predictResult = NoResult
  /\ InitStorage
  /\ InitAssistant

\* One call on a fresh database, for every message of the bounded runs
RouteOnce ==
  \E user_id \in Users, message \in Messages, g \in 1..NumGreetings :
     /\ call = NoCall
     /\ ProcessMessage(user_id, message, NoRemote, g, TRUE)

NextRoute == RouteOnce

SpecRoute == InitChat /\ [][NextRoute]_vars

\* the messages of the conversations
ChatMessages ==
  { <<"h","i">>,
    <<"S","p","e","n","t"," ","5","0","0"," ","o","n"," ","g","r","o","c","e","r","i","e","s">>,
    <<"p","a","i","d"," ","3","0","0"," ","f","o","r"," ","c","o","n","s","u","l","t","i","n","g">>,
    <<"r","e","c","e","i","v","e","d"," ","5","0","0","0"," ","f","r","o","m"," ","f","r","e","e","l","a","n","c","e">>,
    <<"s","p","e","n","t"," ","0"," ","o","n"," ","m","y"," ","e","x","p","e","n","s","e","s">>,
    <<"w","h","a","t","'","s"," ","m","y"," ","b","a","l","a","n","c","e">>,
    <<"r","e","c","e","n","t"," ","t","r","a","n","s","a","c","t","i","o","n","s">>,
    <<"b","u","d","g","e","t"," ","f","o","o","d"," ","t","o"," ","5","0","0","0">>,
    <<"s","e","t"," ","b","u","d","g","e","t"," ","o","f"," ","1","0","0","0","0"," ","f","o","r"," ","f","o","o","d">>,
    <<"s","e","t"," ","b","u","d","g","e","t"," ","o","f"," ","5","0","0">>,
    <<"b","u","d","g","e","t"," ","x","y","z"," ","t","o"," ","5","0","0">>,
    <<"b","l","a","h">> }

\* Users without a credential talking to one assistant
Converse ==
  \E user_id \in Users, message \in ChatMessages, g \in 1..NumGreetings :
     /\ ProcessMessage(user_id, message, NoRemote, g, TRUE)
     /\ Len(transactions') <= MaxTx

NextChat == Converse

SpecChat == InitChat /\ [][NextChat]_vars

\* the values the settings page stores, the messages and the size of the
\* transactions table in the runs with the remote assistant
KeyValues == {"", "key"}
RemoteMessages ==
  { <<"h","i">>,
    <<"S","p","e","n","t"," ","5","0","0"," ","o","n"," ","g","r","o","c","e","r","i","e","s">>,
    <<"r","e","c","e","i","v","e","d"," ","5","0","0","0"," ","f","r","o","m"," ","f","r","e","e","l","a","n","c","e">> }
MaxRemoteTx == 1

AskAssistant ==
  \E user_id \in Users, message \in RemoteMessages,
     remote \in RemoteOutcomes \cup {NoRemote}, g \in 1..NumGreetings,
     construct_ok \in BOOLEAN :
     /\ ProcessMessage(user_id, message, remote, g, construct_ok)
     /\ Len(transactions') <= MaxRemoteTx

SaveKey == \E user_id \in Users, value \in KeyValues : SetSetting(user_id, value)

NextRemote == SaveKey \/ NewAssistant \/ AskAssistant

SpecRemote == InitChat /\ [][NextRemote]_vars

\* calls over an empty transactions table, on every path
AskOnEmpty ==
  \E user_id \in Users, message \in RemoteMessages,
     remote \in RemoteOutcomes \cup {NoRemote}, g \in 1..NumGreetings,
     construct_ok \in BOOLEAN :
     /\ transactions = <<>>
     /\ ProcessMessage(user_id, message, remote, g, construct_ok)

NextEmpty == SaveKey \/ NewAssistant \/ AskOnEmpty

SpecEmpty == InitChat /\ [][NextEmpty]_vars

(***************************************************************************)
(* The forecast over a stored history                                      *)
(***************************************************************************)
\* the months a history has rows in: the month of the cutoff up to this one
HistoryMonths == 7
FirstMonth == Today.month - HistoryMonths + 1

\* the expense of a month, 0 for none: this month draws from LastAmounts,
\* the other of the latest RecentMonths months from RecentAmounts, the months
\* before from EarlierAmounts
RecentMonths == 3
RecentAmounts == {0, 10000, 20000, 30000}
LastAmounts == RecentAmounts \cup {16000, 23000, 23300}
EarlierAmounts == {0, 20000}
\* the income of last month, 0 for none
IncomeAmounts == {0, 500000}
\* the day of the rows of the first month: before the cutoff day or on it
FirstDays == {1, 2}

AmountsOf(month) ==
  IF month = Today.month THEN LastAmounts
  ELSE IF month > Today.month - RecentMonths THEN RecentAmounts ELSE EarlierAmounts

HistoryChoices ==
  {before @@ (Today.month :> last) :
     before \in [FirstMonth..Today.month - 1 -> RecentAmounts], last \in LastAmounts}

\* the rows of a history, oldest first, before they get their ids
RECURSIVE Entries(_, _, _, _)
Entries(expense, income, day, month) ==
  IF month > Today.month THEN <<>>
  ELSE (IF expense[month] = 0 THEN <<>>
        ELSE <<[amount |-> expense[month], transaction_type |-> "expense",
                date |-> Date(month, IF month = FirstMonth THEN day ELSE Today.day)]>>)
       \o (IF income = 0 \/ month # Today.month - 1 THEN <<>>
           ELSE <<[amount |-> income, transaction_type |-> "income",
                   date |-> Date(month, 1)]>>)
       \o Entries(expense, income, day, month + 1)

\* the transactions table holding the entries as rows of the first user
History(entries) ==
  [i \in 1..Len(entries) |->
     Row(i, entries[i].amount,
         IF entries[i].transaction_type = "income"
         THEN <<"I","n","c","o","m","e">> ELSE <<"E","x","p","e","n","s","e">>,
         get_category_by_name(IF entries[i].transaction_type = "income"
                              THEN "Salary" ELSE "Other", 1).id,
         entries[i].transaction_type, entries[i].date, 1)]

InitForecast ==
  /\ InitCategorizer
  /\ predictArg = NoText
  /\ predictResult = NoResult
  /\ budgets = <<>>
  /\ settings = [u \in Users |-> None]
  /\ InitAssistant
  /\ \E expense \in HistoryChoices, income \in IncomeAmounts, day \in FirstDays :
        /\ \A month \in DOMAIN expense : expense[month] \in AmountsOf(month)
        /\ transactions = History(Entries(expense, income, day, FirstMonth))
        /\ last_tx_id = Len(transactions)

\* predictor.predict_next_month_expenses(user_id)
Forecast ==
  /\ \E user_id \in Users :
        forecast' = predict_next_month_expenses(transactions, user_id)
  /\ UNCHANGED <<catVars, dbVars, chatVars, budget_status, alerts, budget_form, recommendations>>

NextForecast == Forecast

SpecForecast == InitForecast /\ [][NextForecast]_vars

(***************************************************************************)
(* The recommendations over a stored month and its history                 *)
(***************************************************************************)
\* the income of this month, 0 for none
AdviceIncomes == {0, 100, 100000}
\* the expenses of this month in Food & Dining, Transport and Other
AdviceExpenses ==
  { <<0, 0, 0>>, <<80, 0, 0>>, <<90, 0, 0>>, <<95000, 0, 0>>, <<40000, 0, 0>>,
    <<40000, 30000, 30000>>, <<45000, 20000, 20000>> }
AdviceCategories == <<"Food & Dining", "Transport", "Other">>
\* the months before this one that hold an expense of EarlierExpense: none,
\* the last three, the last six
EarlierMonths == {0, 3, 6}
EarlierExpense == 10000
\* the budgets table: empty, or one budget of one user
AdviceBudgets ==
  {<<>>} \cup {<<[category_id |-> get_category_by_name("Other", u).id, user_id |-> u,
                  monthly_limit |-> 10000]>> : u \in Users}

\* the rows of the months before this one, oldest first
RECURSIVE EarlierRows(_)
EarlierRows(n) ==
  IF n = 0 THEN <<>>
  ELSE <<[amount |-> EarlierExpense, transaction_type |-> "expense", category |-> "Other",
          date |-> Date(Today.month - n, Today.day)]>> \o EarlierRows(n - 1)

\* the rows of this month
MonthEntries(income, expense) ==
  (IF income = 0 THEN <<>>
   ELSE <<[amount |-> income, transaction_type |-> "income", category |-> "Salary",
           date |-> Today]>>)
  \o SelectSeq([k \in 1..3 |-> [amount |-> expense[k], transaction_type |-> "expense",
                                 category |-> AdviceCategories[k], date |-> Today]],
               LAMBDA e : e.amount > 0)

\* the transactions table holding the entries as rows of the first user
Ledger(entries) ==
  [i \in 1..Len(entries) |->
     Row(i, entries[i].amount, <<"x">>, get_category_by_name(entries[i].category, 1).id,
         entries[i].transaction_type, entries[i].date, 1)]

InitAdvice ==
  /\ InitCategorizer
  /\ predictArg = NoText
  /\ predictResult = NoResult
  /\ settings = [u \in Users |-> None]
  /\ InitAssistant
  /\ budgets \in AdviceBudgets
  /\ \E income \in AdviceIncomes, expense \in AdviceExpenses, n \in EarlierMonths :
        /\ transactions = Ledger(EarlierRows(n) \o MonthEntries(income, expense))
        /\ last_tx_id = Len(transactions)

\* predictor.get_recommendations(user_id) of the analytics page
Recommendations ==
  /\ \E user_id \in Users :
        recommendations' = get_recommendations(budgets, transactions, user_id)
  /\ UNCHANGED <<catVars, dbVars, chatVars, forecast, budget_status, alerts, budget_form>>

NextAdvice == Recommendations

SpecAdvice == InitAdvice /\ [][NextAdvice]_vars

(***************************************************************************)
(* Budgets and alerts: the forms and pages of streamlit_app.py and the     *)
(* assistant over one database                                             *)
(***************************************************************************)
\* category_options = {f"{c['icon']} {c['name']}": c['id'] for c in listing}:
\* of the categories with one label the last listed gives the id
category_options(listing) ==
  [name \in {listing[i].name : i \in 1..Len(listing)} |->
     listing[CHOOSE i \in 1..Len(listing) :
               /\ listing[i].name = name
               /\ \A j \in (i + 1)..Len(listing) : listing[j].name # name].id]

\* what the users enter in the forms and tell the assistant
FormCategories == {"Food & Dining"}
FormAmounts == {7900, 8000, 10000}
FormLimits == {10000, 20000}
FormDescription == <<"l","u","n","c","h">>
AlertMessages ==
  { <<"p","a","i","d"," ","3","0","0"," ","f","o","r"," ","c","o","n","s","u","l","t","i","n","g">>,
    <<"b","u","d","g","e","t"," ","f","o","o","d"," ","t","o"," ","5","0","0","0">> }

\* the budgets table holds at most MaxBudgets rows in these runs, and the
\* users of Tellers talk to the assistant
MaxBudgets == 2
Tellers == {1}

\* no page has been rendered yet
NoPage == budget_status = NoStatus /\ alerts = NoAlerts

\* the Add Transaction form, submitted for an expense dated today
AddTransactionForm ==
  \E user_id \in Users, selected_category \in FormCategories, amount \in FormAmounts :
     /\ NoPage
     /\ Len(transactions) < MaxTx
     /\ amount > 0 /\ FormDescription # <<>>
     /\ LET added == add_transaction(transactions, last_tx_id, amount, FormDescription,
                        category_options(get_categories("expense", user_id))[selected_category],
                        "expense", Today, user_id)
        IN  transactions' = added.txs /\ last_tx_id' = added.seq
     /\ UNCHANGED <<catVars, budgets, chatVars, reportVars>>

\* the Set Budget button of the budgets page; the number input has
\* min_value=100.0
SetBudgetForm ==
  \E user_id \in Users, selected_category \in FormCategories, budget_amount \in FormLimits :
     /\ NoPage
     /\ budget_amount >= 10000
     /\ budgets' = set_budget(budgets,
                      category_options(get_categories("expense", user_id))[selected_category],
                      user_id, budget_amount)
     /\ Len(budgets') <= MaxBudgets
     /\ budget_form' = [user_id |-> user_id, category |-> selected_category,
                        budget_amount |-> budget_amount]
     /\ UNCHANGED <<catVars, transactions, last_tx_id, chatVars, forecast, budget_status, alerts, recommendations>>

\* a message to the assistant, no credential stored
Tell ==
  \E user_id \in Tellers, message \in AlertMessages :
     /\ NoPage
     /\ ProcessMessage(user_id, message, NoRemote, 1, TRUE)
     /\ Len(transactions') <= MaxTx
     /\ Len(budgets') <= MaxBudgets

\* the budgets page renders db.get_budget_status(user_id)
BudgetsPage ==
  \E user_id \in Users :
     /\ NoPage
     /\ budget_status' = get_budget_status(budgets, transactions, user_id)
     /\ UNCHANGED <<catVars, dbVars, chatVars, forecast, alerts, budget_form, recommendations>>

\* the dashboard renders predictor.detect_overspending(user_id)
Dashboard ==
  \E user_id \in Users :
     /\ NoPage
     /\ alerts' = detect_overspending(budgets, transactions, user_id)
     /\ UNCHANGED <<catVars, dbVars, chatVars, forecast, budget_status, budget_form, recommendations>>

NextAlerts == AddTransactionForm \/ SetBudgetForm \/ Tell \/ BudgetsPage \/ Dashboard

SpecAlerts == InitChat /\ [][NextAlerts]_vars

(***************************************************************************)
(* Several users over one database                                         *)
(***************************************************************************)
\* mutant: UPDATE ... WHERE id = ?, whoever owns the row
update_transaction_of_anyone(txs, transaction_id, user_id, amount) ==
  [i \in 1..Len(txs) |->
     IF txs[i].id = transaction_id THEN [txs[i] EXCEPT !.amount = amount] ELSE txs[i]]

\* update_transaction(transaction_id, user_id, amount=amount):
\* UPDATE transactions SET amount = ? WHERE id = ? AND user_id = ?
update_transaction(txs, transaction_id, user_id, amount) ==
  [i \in 1..Len(txs) |->
     IF txs[i].id = transaction_id /\ txs[i].user_id = user_id
     THEN [txs[i] EXCEPT !.amount = amount]
     ELSE txs[i]]

\* delete_transaction: DELETE FROM transactions WHERE id = ? AND user_id = ?
delete_transaction(txs, transaction_id, user_id) ==
  SelectSeq(txs, LAMBDA t : ~(t.id = transaction_id /\ t.user_id = user_id))

\* clear_all_data: DELETE FROM transactions WHERE user_id = ?, then
\* DELETE FROM budgets WHERE user_id = ?
clear_all_data(txs, bs, user_id) ==
  [txs |-> SelectSeq(txs, LAMBDA t : t.user_id # user_id),
   budgets |-> SelectSeq(bs, LAMBDA b : b.user_id # user_id)]

\* what the users store and tell; the AUTOINCREMENT counter stops at MaxIds
UserAmounts == {5000}
NewAmounts == {7000}
UserLimits == {10000}
UserMessages ==
  { <<"p","a","i","d"," ","3","0","0"," ","f","o","r"," ","c","o","n","s","u","l","t","i","n","g">>,
    <<"b","u","d","g","e","t"," ","f","o","o","d"," ","t","o"," ","5","0","0","0">> }
MaxIds == 3

\* db.add_transaction(..., user_id=st.session_state.user_id) of the form
AddFor(user_id) ==
  \E selected_category \in FormCategories, amount \in UserAmounts :
     /\ last_tx_id < MaxIds
     /\ Len(transactions) < MaxTx
     /\ LET added == add_transaction(transactions, last_tx_id, amount, FormDescription,
                        category_options(get_categories("expense", user_id))[selected_category],
                        "expense", Today, user_id)
        IN  transactions' = added.txs /\ last_tx_id' = added.seq
     /\ UNCHANGED <<catVars, budgets, chatVars, reportVars>>

\* db.update_transaction(id, user_id, amount=...) for any id ever given out
UpdateFor(user_id) ==
  \E transaction_id \in 1..MaxIds, amount \in NewAmounts :
     /\ transaction_id <= last_tx_id
     /\ transactions' = update_transaction(transactions, transaction_id, user_id, amount)
     /\ UNCHANGED <<catVars, last_tx_id, budgets, chatVars, reportVars>>

\* db.delete_transaction(id, user_id) for any id ever given out
DeleteFor(user_id) ==
  \E transaction_id \in 1..MaxIds :
     /\ transaction_id <= last_tx_id
     /\ transactions' = delete_transaction(transactions, transaction_id, user_id)
     /\ UNCHANGED <<catVars, last_tx_id, budgets, chatVars, reportVars>>

\* db.set_budget(category_id, st.session_state.user_id, budget_amount)
SetBudgetFor(user_id) ==
  \E selected_category \in FormCategories, budget_amount \in UserLimits :
     /\ budgets' = set_budget(budgets,
                      category_options(get_categories("expense", user_id))[selected_category],
                      user_id, budget_amount)
     /\ Len(budgets') <= MaxBudgets
     /\ UNCHANGED <<catVars, transactions, last_tx_id, chatVars, reportVars>>

\* db.clear_all_data(user_id=st.session_state.user_id)
ClearFor(user_id) ==
  LET cleared == clear_all_data(transactions, budgets, user_id)
  IN  /\ transactions' = cleared.txs
      /\ budgets' = cleared.budgets
      /\ UNCHANGED <<catVars, last_tx_id, chatVars, reportVars>>

\* assistant.process_message(message, user_id), no credential stored; the
\* one call to the assistant of a run
TellFor(user_id) ==
  \E message \in UserMessages :
     /\ call = NoCall
     /\ ProcessMessage(user_id, message, NoRemote, 1, TRUE)
     /\ last_tx_id' <= MaxIds
     /\ Len(transactions') <= MaxTx
     /\ Len(budgets') <= MaxBudgets

NextUsers ==
  \/ \E user_id \in Users : AddFor(user_id)
  \/ \E user_id \in Users : UpdateFor(user_id)
  \/ \E user_id \in Users : DeleteFor(user_id)
  \/ \E user_id \in Users : SetBudgetFor(user_id)
  \/ \E user_id \in Users : ClearFor(user_id)
  \/ \E user_id \in Users : TellFor(user_id)

SpecUsers == InitChat /\ [][NextUsers]_vars

(***************************************************************************)
(* Claims                                                                  *)
(***************************************************************************)
\* the table entries listed before entry i that have a keyword inside text
EarlierEntries(i, text) ==
  {j \in 1..(i - 1) :
     \E k \in 1..Len(TRAINING_DATA[j].keywords) :
        Contains(text, TRAINING_DATA[j].keywords[k])}

\* predict has been called on the keyword k of table entry i
PredictedKeyword(i, k) ==
  /\ predictResult # NoResult
  /\ predictArg = TRAINING_DATA[i].keywords[k]

\* C1 as stated: for every (category, keyword) pair of the table,
\* predict(keyword) returns (category, 0.95).
C1_Original ==
  \A i \in 1..Len(TRAINING_DATA) : \A k \in 1..Len(TRAINING_DATA[i].keywords) :
     PredictedKeyword(i, k) =>
        predictResult = <<TRAINING_DATA[i].category, "0.95">>

\* C1 amended: predict(keyword) returns confidence 0.95 and the category the
\* keyword is listed under, unless a category listed earlier in the table has
\* a keyword contained in it; then the earliest such category is returned.
C1_KeywordPrediction ==
  \A i \in 1..Len(TRAINING_DATA) : \A k \in 1..Len(TRAINING_DATA[i].keywords) :
     PredictedKeyword(i, k) =>
        LET earlier == EarlierEntries(i, TRAINING_DATA[i].keywords[k]) IN
        /\ predictResult[2] = "0.95"
        /\ earlier = {} => predictResult[1] = TRAINING_DATA[i].category
        /\ earlier # {} =>
             predictResult[1] =
               TRAINING_DATA[CHOOSE j \in earlier : \A m \in earlier : j <= m].category

\* predict("gas bill"), listed under Utilities, answered Transport ("gas")
C1_Witness ==
  /\ predictArg = <<"g","a","s"," ","b","i","l","l">>
  /\ predictResult = <<"Transport", "0.95">>

\* C2 The deterministic path tests the groups in this order, and the first
\* group with a matching pattern handles the message: the reply is one of
\* that group's handler, reached through the group and not through the smart
\* parse.
IntentOrder ==
  <<"greeting", "help", "thanks", "add_expense", "add_income", "check_balance",
    "check_spending", "recent_transactions", "set_budget">>

FirstMatchingGroup(message) ==
  LET hits == {i \in 1..Len(IntentOrder) :
                 match_intent(intent_patterns[IntentOrder[i]], message)}
  IN  IF hits = {} THEN None ELSE IntentOrder[CHOOSE i \in hits : \A j \in hits : i <= j]

FirstGroupOf == [m \in DOMAIN RouteOf |-> FirstMatchingGroup(m)]

ActionsOf(group) ==
  CASE group = "greeting" -> {"greeting"}
    [] group = "help" -> {"help"}
    [] group = "thanks" -> {"thanks"}
    [] group = "add_expense" -> {"expense_added"}
    [] group = "add_income" -> {"income_added"}
    [] group = "check_balance" -> {"balance_checked"}
    [] group = "check_spending" -> {"spending_checked"}
    [] group = "recent_transactions" -> {"transactions_listed"}
    [] group = "set_budget" -> {"budget_set", "need_category", "category_not_found"}

C2_FirstMatchingGroupHandles ==
  (call.path = "regex" /\ FirstGroupOf[call.message] # None) =>
     /\ RouteOf[call.message].via = "intent"
     /\ RouteOf[call.message].handler = FirstGroupOf[call.message]
     /\ reply.action \in ActionsOf(FirstGroupOf[call.message])

\* this step is the process_message call recorded in call'
CallStep ==
  /\ call' # NoCall
  /\ \E g \in 1..NumGreetings :
        Process(call'.user_id, call'.message, call'.remote, g, assistant_model')

\* C3 A call takes the remote-assisted path only if a credential is
\* configured for its user at the time of the call.
C3_RemoteOnlyWithCredential ==
  [][(CallStep /\ call'.path = "gemini")
       => KeySet(get_setting(call'.user_id))]_vars

\* this step returns and persists what the deterministic path returns and
\* persists for message and user_id
DeterministicStep(user_id, message) ==
  \E g \in 1..NumGreetings :
     LET out == process_with_regex(transactions, last_tx_id, budgets,
                                   Predictions[categorizer_model], message, user_id, g)
     IN  /\ ~out.raised
         /\ reply' = out.reply
         /\ transactions' = out.txs
         /\ last_tx_id' = out.seq
         /\ budgets' = out.budgets

\* a fragment that does not parse, or one for add_expense / add_income that
\* lacks amount or description
Malformed(remote) ==
  \/ remote.kind = "bad_json"
  \/ /\ remote.kind = "json"
     /\ remote.action \in {"add_expense", "add_income"}
     /\ (remote.amount = Missing \/ remote.description = MissingText)

\* C4 A call whose remote response is malformed returns and persists what
\* the deterministic path does for the same message.
C4_MalformedFallsBack ==
  [][(CallStep /\ Malformed(call'.remote))
       => DeterministicStep(call'.user_id, call'.message)]_vars

\* C5 A call whose remote request raises does not raise itself, and returns
\* and persists what the deterministic path does for the same message.
C5_RemoteErrorFallsBack ==
  [][(CallStep /\ call'.remote = RemoteError)
       => (reply' # Raised /\ DeterministicStep(call'.user_id, call'.message))]_vars

\* a call on the remote path whose request raised has added an expense
C5_Witness ==
  /\ call.path = "gemini"
  /\ call.remote = RemoteError
  /\ reply.action = "expense_added"
  /\ Len(transactions) = 1

\* C6 Every expense row references an expense category visible to its user.
C6_ExpenseCategory ==
  \A i \in 1..Len(transactions) :
     transactions[i].transaction_type = "expense" =>
        /\ categories[transactions[i].category_id].type = "expense"
        /\ VisibleTo(categories[transactions[i].category_id], transactions[i].user_id)

\* C7 Every persisted transaction amount and budget limit is greater than 0.
C7_PositiveAmounts ==
  /\ \A i \in 1..Len(transactions) : transactions[i].amount > 0
  /\ \A i \in 1..Len(budgets) : budgets[i].monthly_limit > 0

\* the messages the deterministic path handles with the handler, amount and
\* description of the fragment `remote`
SameRequest(remote) ==
  {m \in DOMAIN RouteOf :
     /\ RouteOf[m].handler = remote.action
     /\ RouteOf[m].amount = remote.amount.v
     /\ RouteOf[m].text = remote.description}

\* C8 A fragment {action, amount, description} with an amount leaves
\* the transactions table as the deterministic path leaves it for a message
\* with the same handler, amount and description from the same user.
C8_SameTransaction ==
  [][(/\ CallStep
      /\ call'.remote.kind = "json"
      /\ call'.remote.action \in {"add_expense", "add_income"}
      /\ call'.remote.amount.kind \in {"number", "string"}
      /\ call'.remote.description # MissingText)
       => \A m \in SameRequest(call'.remote) :
             /\ transactions' =
                  process_with_regex(transactions, last_tx_id, budgets,
                                     Predictions[categorizer_model], m,
                                     call'.user_id, 1).txs
             /\ Len(transactions') = Len(transactions) + 1]_vars

\* the remote assistant asked for an expense of 500 on groceries and the
\* row is there
C8_Witness ==
  /\ call.path = "gemini"
  /\ call.remote = RemoteJson("add_expense", Numeric(50000),
                              <<"g","r","o","c","e","r","i","e","s">>)
  /\ SameRequest(call.remote) # {}
  /\ Len(transactions) = 1
  /\ transactions[1].description = <<"G","r","o","c","e","r","i","e","s">>
  /\ categories[transactions[1].category_id].name = "Food & Dining"

\* the monthly expenses of the first user the forecast was made from
ExpensesOf(txs) == Column(get_monthly_trends(txs, 1, 6), "expense")

\* the forecast is the one of the first user
ForecastOfFirstUser == forecast = predict_next_month_expenses(transactions, 1)

\* C9 (as stated) With the three monthly expenses 100, 200, 300 the
\* predicted expense is about 213.3.
C9_Original ==
  (ForecastOfFirstUser /\ ExpensesOf(transactions) = <<10000, 20000, 30000>>)
    => /\ "predicted_expense" \in DOMAIN forecast
       /\ forecast.predicted_expense >= 21325
       /\ forecast.predicted_expense <= 21335

\* C9 With the three monthly expenses 100, 200, 300 the weights are the
\* first three of the ramp, 1/4.5, 1.5/4.5 and 2/4.5, and the predicted
\* expense is 1000/4.5 rounded to hundredths, 222.22.
C9_TruncatedRamp ==
  (ForecastOfFirstUser /\ ExpensesOf(transactions) = <<10000, 20000, 30000>>)
    => /\ "predicted_expense" \in DOMAIN forecast
       /\ forecast.predicted_expense = 22222
       /\ forecast.predicted_expense =
            RoundDiv(2 * 10000 + 3 * 20000 + 4 * 30000, 2 + 3 + 4)

\* a forecast made from the three monthly expenses 100, 200, 300
C9_Witness ==
  /\ ExpensesOf(transactions) = <<10000, 20000, 30000>>
  /\ ForecastOfFirstUser
  /\ "predicted_expense" \in DOMAIN forecast
  /\ forecast.confidence = "medium"

\* C10 Every forecast is a record with the six fields; from fewer than two
\* monthly aggregates its three predictions are zero, its confidence is low
\* and its trend is insufficient_data.
C10_SixFields ==
  forecast # NoForecast =>
     /\ DOMAIN forecast = {"predicted_expense", "predicted_income",
                           "predicted_savings", "confidence", "trend", "message"}
     /\ (\A user_id \in Users :
           (/\ forecast = predict_next_month_expenses(transactions, user_id)
            /\ Len(get_monthly_trends(transactions, user_id, 6)) < 2)
             => /\ forecast.predicted_expense = 0
                /\ forecast.predicted_income = 0
                /\ forecast.predicted_savings = 0
                /\ forecast.confidence = "low"
                /\ forecast.trend = "insufficient_data")

\* the trend the thresholds give in the reals for the monthly expenses
TrendOf(expenses) ==
  IF Len(expenses) < 3 THEN "insufficient_data"
  ELSE IF 10 * SumSeq(TailN(expenses, 3)) > 11 * SumSeq(HeadN(expenses, 3))
  THEN "increasing"
  ELSE IF 10 * SumSeq(TailN(expenses, 3)) < 9 * SumSeq(HeadN(expenses, 3))
  THEN "decreasing"
  ELSE "stable"

\* C11 The trend of a forecast is increasing exactly when the mean of the
\* latest three monthly expenses is above 1.1 times the mean of the earliest
\* three, decreasing exactly when it is below 0.9 times it, stable otherwise,
\* and insufficient_data with fewer than three aggregates.
C11_TrendThresholds ==
  (ForecastOfFirstUser /\ "trend" \in DOMAIN forecast)
    => forecast.trend = TrendOf(ExpensesOf(transactions))

\* the dashboard has rendered the alerts of user_id
AlertsOf(user_id) ==
  alerts # NoAlerts /\ alerts = detect_overspending(budgets, transactions, user_id)

IsBudgetAlert(a) == a.type \in {"budget_exceeded", "budget_warning"}
Flagged(item) == 100 * item.spent >= 80 * item.monthly_limit

\* C12: the budget alerts of a list are, in order, one for each budget status
\* item with spent / limit * 100 >= 80: budget_exceeded of severity high
\* when it is >= 100, budget_warning of severity medium otherwise; an item
\* below 80 has none.
C12_BudgetThresholds ==
  \A user_id \in Users :
     AlertsOf(user_id) =>
       LET flagged == SelectSeq(get_budget_status(budgets, transactions, user_id), Flagged)
           budget == SelectSeq(alerts, IsBudgetAlert)
       IN  /\ Len(budget) = Len(flagged)
           /\ \A k \in 1..Len(budget) :
                 /\ budget[k].category = flagged[k].name
                 /\ budget[k].type =
                      IF flagged[k].spent >= flagged[k].monthly_limit
                      THEN "budget_exceeded" ELSE "budget_warning"
                 /\ budget[k].severity =
                      IF flagged[k].spent >= flagged[k].monthly_limit
                      THEN "high" ELSE "medium"

\* a list with a budget_warning alert for spent=80/limit=100 and no alert
\* for another budget of the user, which is below 80
C12_Witness ==
  \E user_id \in Users :
     /\ AlertsOf(user_id)
     /\ \E k \in 1..Len(alerts) :
           alerts[k].type = "budget_warning" /\ alerts[k].percentage = <<800000, 10000>>
     /\ Len(SelectSeq(alerts, IsBudgetAlert)) < Len(get_budget_status(budgets, transactions, user_id))

Items79(user_id) ==
  LET status == get_budget_status(budgets, transactions, user_id)
  IN  {status[i] : i \in {k \in 1..Len(status) :
                            status[k].spent = 7900 /\ status[k].monthly_limit = 10000}}

\* C14 as stated: for a category with spent=79 and limit=100 the list has no
\* alert of that category.
C14_Original ==
  \A user_id \in Users :
     AlertsOf(user_id) =>
       \A item \in Items79(user_id), k \in 1..Len(alerts) : alerts[k].category # item.name

\* C14, amended: for a category with spent=79 and limit=100 the list has no
\* budget_exceeded or budget_warning alert; it has a high_spending alert of
\* that category exactly when the 79 exceed half the average monthly expense
\* of get_monthly_trends(months=3).
C14_NoBudgetAlertBelow80 ==
  \A user_id \in Users :
     AlertsOf(user_id) =>
       \A item \in Items79(user_id) :
          LET df == get_monthly_trends(transactions, user_id, 3)
              named == {k \in 1..Len(alerts) : alerts[k].category = item.name}
          IN  /\ \A k \in named : alerts[k].type = "high_spending"
              /\ named # {} <=> 2 * Len(df) * item.spent > SumSeq(Column(df, "expense"))

\* a list for a user with spent=79/limit=100 that has alerts, none of them of
\* that category
C14_Witness ==
  \E user_id \in Users :
     /\ AlertsOf(user_id)
     /\ alerts # <<>>
     /\ Items79(user_id) # {}
     /\ \A item \in Items79(user_id), k \in 1..Len(alerts) : alerts[k].category # item.name

\* the budgets page has rendered the status of user_id
StatusOf(user_id) ==
  budget_status # NoStatus /\ budget_status = get_budget_status(budgets, transactions, user_id)

\* the expenses of the month of user_id in the category, summed
SpentOf(user_id, category_id) ==
  SumAmounts(transactions,
             {i \in 1..Len(transactions) :
                /\ transactions[i].user_id = user_id
                /\ transactions[i].category_id = category_id
                /\ transactions[i].transaction_type = "expense"
                /\ transactions[i].date.month = Today.month})

\* budget_status has exactly one item for the category; its limit is
\* monthly_limit and its derived fields follow from the limit and the spending
OneItem(user_id, category_id, monthly_limit) ==
  LET items == {i \in 1..Len(budget_status) : budget_status[i].id = category_id}
  IN  /\ Cardinality(items) = 1
      /\ \A i \in items :
            /\ budget_status[i].monthly_limit = monthly_limit
            /\ budget_status[i].spent = SpentOf(user_id, category_id)
            /\ budget_status[i].remaining = monthly_limit - SpentOf(user_id, category_id)
            /\ budget_status[i].percentage =
                 IF monthly_limit <= 0 THEN <<0, 1>>
                 ELSE <<SpentOf(user_id, category_id) * 100, monthly_limit>>

\* the user's own copy of a default category (register_user)
OwnCopy(name, user_id) ==
  CHOOSE id \in DOMAIN categories :
     categories[id].name = name /\ categories[id].user_id = user_id

\* the global row of a default category (_seed_categories)
GlobalCopy(name) ==
  CHOOSE id \in DOMAIN categories :
     categories[id].name = name /\ categories[id].user_id = NullUser

GreetingStep ==
  /\ reply'.action = "greeting"
  /\ reply'.response \in {"greeting_hello", "greeting_hi_there", "greeting_hey"}
  /\ transactions' = transactions
  /\ budgets' = budgets

\* C16 as stated: every call with the message "hi" returns a greeting
\* template with action greeting and persists nothing.
C16_Original ==
  [][(CallStep /\ call'.message = <<"h","i">>) => GreetingStep]_vars

\* C16, amended: a call with the message "hi" that takes the deterministic
\* path, or whose remote request raises, returns a greeting template with
\* action greeting and persists nothing.
C16_GreetingWithoutRemote ==
  [][(/\ CallStep
      /\ call'.message = <<"h","i">>
      /\ call'.path = "regex" \/ call'.remote = RemoteError) => GreetingStep]_vars

\* "hi" was answered on the deterministic path after a transaction was stored
C16_Witness ==
  /\ call.message = <<"h","i">>
  /\ call.path = "regex"
  /\ reply.action = "greeting"
  /\ Len(transactions) = 1

\* this step stores exactly one row: an expense of amount for the user of
\* the call in the category named name, described with text
ExpenseStep(amount, name, text) ==
  /\ reply'.action = "expense_added"
  /\ budgets' = budgets
  /\ Len(transactions') = Len(transactions) + 1
  /\ SubSeq(transactions', 1, Len(transactions)) = transactions
  /\ LET row == transactions'[Len(transactions')]
     IN  /\ row.transaction_type = "expense"
         /\ row.amount = amount
         /\ row.user_id = call'.user_id
         /\ categories[row.category_id].name = name
         /\ Contains(Lower(row.description), text)

\* C17: a call with the message "Spent 500 on groceries" by a user without
\* a credential is handled as AddExpense: exactly one transaction is stored,
\* an expense of 500 of that user in "Food & Dining" whose description
\* contains "groceries".
C17_GroceriesExpense ==
  [][(/\ CallStep
      /\ call'.message = <<"s","p","e","n","t"," ","5","0","0"," ","o","n"," ","g","r","o","c","e","r","i","e","s">>
      /\ ~KeySet(get_setting(call'.user_id)))
       => ExpenseStep(50000, "Food & Dining", <<"g","r","o","c","e","r","i","e","s">>)]_vars

\* the first category of the listing whose name, lower-cased, contains text
FirstContaining(listing, text) ==
  listing[CHOOSE i \in 1..Len(listing) :
            /\ Contains(Lower(NameText[listing[i].name]), text)
            /\ \A j \in 1..(i - 1) : ~Contains(Lower(NameText[listing[j].name]), text)]

\* the category "food" stands for in each user's listing of expense categories
FoodCategory ==
  [user_id \in Users |->
     FirstContaining(get_categories("expense", user_id), <<"f","o","o","d">>).id]

\* this step is set_budget(category_id, user_id, monthly_limit) and nothing
\* else: afterwards the pair has one row, with that limit, the other rows
\* are as before and no transaction is added
SetBudgetStep(category_id, user_id, monthly_limit) ==
  LET Of(bs) == {i \in 1..Len(bs) :
                   bs[i].category_id = category_id /\ bs[i].user_id = user_id}
  IN  /\ Cardinality(Of(budgets')) = 1
      /\ \A i \in Of(budgets') : budgets'[i].monthly_limit = monthly_limit
      /\ Len(budgets') = Len(budgets) + (IF Of(budgets) = {} THEN 1 ELSE 0)
      /\ \A i \in (1..Len(budgets)) \ Of(budgets) : budgets'[i] = budgets[i]
      /\ transactions' = transactions

\* C18: a call with the message "budget food to 5000" on the deterministic
\* path sets the budget of the first expense category of the user's listing
\* whose name contains "food" to exactly 5000 for that user, answers
\* budget_set and stores no transaction.
C18_BudgetTextToAmount ==
  [][(/\ CallStep
      /\ call'.message = <<"b","u","d","g","e","t"," ","f","o","o","d"," ","t","o"," ","5","0","0","0">>
      /\ call'.path = "regex")
       => /\ reply'.action = "budget_set"
          /\ SetBudgetStep(FoodCategory[call'.user_id], call'.user_id, 500000)]_vars

\* the assistant has set the budget next to one set in the form, with a
\* transaction stored
C18_Witness ==
  /\ call.message = <<"b","u","d","g","e","t"," ","f","o","o","d"," ","t","o"," ","5","0","0","0">>
  /\ reply.action = "budget_set"
  /\ Len(budgets) = 2
  /\ \A i \in 1..Len(budgets) : budgets[i].user_id = call.user_id
  /\ Len(transactions) >= 1

\* C19: after a call with the message "set budget of 10000 for food" on a
\* fresh database the reply is budget_set, a budget is stored for the acting
\* user and no transaction is stored.
C19_AdvertisedSetBudget ==
  call.message = <<"s","e","t"," ","b","u","d","g","e","t"," ","o","f"," ","1","0","0","0","0"," ","f","o","r"," ","f","o","o","d">>
    => /\ reply.action = "budget_set"
       /\ Len(budgets) = 1
       /\ budgets[1].user_id = call.user_id
       /\ transactions = <<>>

\* C20: at every moment, also during a retrain and after a retrain whose
\* fit raised, the model predict sees is a complete (fitted) one.
C20_ModelAlwaysComplete == categorizer_model \in FittedClassifiers

(***************************************************************************)
(* C21                                                                     *)
(***************************************************************************)
\* a predict call: the argument or the result of the last call changes
PredictStep == predictArg' # predictArg \/ predictResult' # predictResult

\* `not description or not description.strip()`
NoUsableText(description) ==
  description = NoText \/ description = <<>> \/ Strip(description) = <<>>

\* no keyword of the table occurs in the cleaned description
NoKeyword(description) ==
  ~NoUsableText(description) /\ keyword_match(clean_text(description)) = None

\* C21: predict never raises: every call returns a category with a
\* confidence; it returns ("Other", 0.0) for an empty, blank or missing
\* description, and for a description with no keyword when self.model is
\* unset or its prediction raises.
C21_PredictNeverRaises ==
  [][PredictStep =>
       /\ predictResult'[2] \in {"0.0", "0.95", "posterior"}
       /\ NoUsableText(predictArg') => predictResult' = <<"Other", "0.0">>
       /\ NoKeyword(predictArg') /\ ~categorizer_model.fitted
            => predictResult' = <<"Other", "0.0">>]_vars

\* a description without keyword was predicted while retrain had bound an
\* unfitted pipeline to self.model
C21_Witness ==
  /\ NoKeyword(predictArg)
  /\ predictResult = <<"Other", "0.0">>
  /\ retrain_pc = "fit"

(***************************************************************************)
(* C22                                                                     *)
(***************************************************************************)
\* the analytics page has rendered the recommendations of user_id
AdviceOf(user_id) ==
  /\ recommendations # NoAdvice
  /\ recommendations = get_recommendations(budgets, transactions, user_id)

\* the recommendations the rules give in the reals, in the order of the rules
RuledAdvice(user_id) ==
  LET summary == get_summary(transactions, user_id, MonthStart(Today))
      breakdown == get_category_breakdown(transactions, user_id, MonthStart(Today))
      predictions == predict_next_month_expenses(transactions, user_id)
  IN  (IF summary.income > 0 /\ (summary.income - summary.expense) * 100 < 10 * summary.income
       THEN <<Recommendation("Increase Your Savings", None, "high")>> ELSE <<>>)
      \o (IF summary.income > 0 /\ (summary.income - summary.expense) * 100 >= 20 * summary.income
          THEN <<Recommendation("Great Savings Rate!", None, "low")>> ELSE <<>>)
      \o (IF breakdown # <<>> /\ breakdown[1].total * 100 > 40 * SumTotals(breakdown)
          THEN <<Recommendation("Review Spending", breakdown[1].name, "medium")>> ELSE <<>>)
      \o (IF get_budgets(budgets, user_id) = <<>>
          THEN <<Recommendation("Set Up Budgets", None, "medium")>> ELSE <<>>)
      \o (IF "trend" \in DOMAIN predictions /\ predictions.trend = "increasing"
          THEN <<Recommendation("Watch Your Spending Trend", None, "high")>> ELSE <<>>)
      \o (IF summary.balance > 0
          THEN <<Recommendation("Build Emergency Fund", None, "low")>> ELSE <<>>)

Titles(items) == {items[i].title : i \in 1..Len(items)}

\* C22: get_recommendations returns, in the order savings ratio, top
\* category share above 40%, no budgets, increasing trend, positive balance,
\* one recommendation for exactly the rules whose condition holds, and never
\* both "Increase Your Savings" and "Great Savings Rate!".
C22_IndependentRules ==
  \A user_id \in Users :
     AdviceOf(user_id) =>
       /\ recommendations.error = None
       /\ recommendations.items = RuledAdvice(user_id)
       /\ ~({"Increase Your Savings", "Great Savings Rate!"} \subseteq Titles(recommendations.items))

(***************************************************************************)
(* C23                                                                     *)
(***************************************************************************)
\* the table entries with a keyword inside text, by their place in the table
MatchingEntries(text) ==
  {i \in 1..Len(TRAINING_DATA) :
     \E k \in 1..Len(TRAINING_DATA[i].keywords) :
        Contains(text, TRAINING_DATA[i].keywords[k])}

\* C23: when the normalized description contains a keyword of the table,
\* predict returns confidence 0.95 and the first category of the table that
\* has a keyword inside the text, whatever the other categories match and
\* whatever the statistical model is.
C23_FirstCategoryWins ==
  (predictResult # NoResult /\ ~NoUsableText(predictArg)) =>
     LET hits == MatchingEntries(clean_text(predictArg))
     IN  hits # {} =>
           /\ predictResult =
                <<TRAINING_DATA[CHOOSE i \in hits : \A j \in hits : i <= j].category, "0.95">>
           /\ \A model \in Classifiers : predict(predictArg, model) = predictResult

\* predict("cinema by uber") answered Transport, the category of "uber",
\* although "cinema" of Entertainment comes first in the text
C23_Witness ==
  /\ predictArg = <<"c","i","n","e","m","a"," ","b","y"," ","u","b","e","r">>
  /\ predictResult = <<"Transport", "0.95">>
  /\ Cardinality(MatchingEntries(clean_text(predictArg))) > 1

(***************************************************************************)
(* C24                                                                     *)
(***************************************************************************)
\* C24: a forecast is computed from at most 6 monthly aggregates and is
\* returned without an exception, whatever months the transactions inside
\* the queried window fall in.
C24_AtMostSixAggregates ==
  ForecastOfFirstUser =>
     /\ Len(get_monthly_trends(transactions, 1, 6)) <= Len(weights)
     /\ "error" \notin DOMAIN forecast

(***************************************************************************)
(* C25                                                                     *)
(***************************************************************************)
\* the expense categories of user_id whose name contains text
NamedBy(text, user_id) ==
  {c \in Range(get_categories("expense", user_id)) :
     Contains(Lower(NameText[c.name]), Lower(text))}

\* this step writes call or reply, which only process_message does
Called == call' # call \/ reply' # reply

\* this step is a call of the deterministic path that reaches the
\* set-budget handler
SetBudgetCall ==
  /\ Called
  /\ call'.path = "regex"
  /\ RouteOf[call'.message].handler = "set_budget"

\* the category texts of the messages that reach the set-budget handler, and
\* for each user those that name none of the user's expense categories
BudgetTexts == {r.text : r \in {x \in Range(RouteOf) : x.handler = "set_budget"}}
Unnamed ==
  [user_id \in Users |->
     {text \in BudgetTexts : Truthy(text) /\ NamedBy(text, user_id) = {}}]

\* C25: the set-budget handler answers need_category when no category text
\* was extracted and category_not_found when no expense category name of
\* the user contains the text; in both cases the budgets and transactions
\* tables stay as they are and nothing is raised.
C25_SetBudgetFailuresPersistNothing ==
  [][SetBudgetCall =>
       /\ reply' # Raised
       /\ ~Truthy(RouteOf[call'.message].text)
            => reply'.action = "need_category" /\ UNCHANGED dbVars
       /\ RouteOf[call'.message].text \in Unnamed[call'.user_id]
            => reply'.action = "category_not_found" /\ UNCHANGED dbVars]_vars

\* "budget xyz to 500" was answered category_not_found over tables that hold
\* a transaction and a budget
C25_Witness ==
  /\ call.message = <<"b","u","d","g","e","t"," ","x","y","z"," ","t","o"," ","5","0","0">>
  /\ reply.action = "category_not_found"
  /\ transactions # <<>>
  /\ budgets # <<>>

(***************************************************************************)
(* C26                                                                     *)
(***************************************************************************)
\* the first number of a text, in hundredths, 0 when it has no digit: the
\* first run of digits with, if they follow, a point and one or two digits
FirstNumber(s) ==
  LET digits == {i \in 1..Len(s) : s[i] \in Digits}
      first  == CHOOSE i \in digits : \A j \in digits : i <= j
      last   == CHOOSE i \in first..Len(s) :
                  /\ \A j \in first..i : s[j] \in Digits
                  /\ i = Len(s) \/ s[i + 1] \notin Digits
      IsDigit(i) == i <= Len(s) /\ s[i] \in Digits
      end    == IF last < Len(s) /\ s[last + 1] = "." /\ IsDigit(last + 2)
                THEN (IF IsDigit(last + 3) THEN last + 3 ELSE last + 2)
                ELSE last
  IN  IF digits = {} THEN 0 ELSE float(SubSeq(s, first, end))

\* some number of the text is greater than 0
HasPositiveNumber(s) == \E i \in 1..Len(s) : s[i] \in Digits \ {"0"}

HasIncomeKeyword(s) ==
  \E k \in 1..Len(income_keywords) : Contains(s, income_keywords[k])

\* the one call of the run was left to the smart parse
SmartParsed ==
  /\ call # NoCall
  /\ call.path = "regex"
  /\ RouteOf[call.message].via = "smart"

\* the call persisted one transaction and nothing else, of the type the
\* income keywords give
OneByKeywords ==
  /\ Len(transactions) = 1
  /\ budgets = <<>>
  /\ transactions[1].transaction_type =
       (IF HasIncomeKeyword(call.message) THEN "income" ELSE "expense")
  /\ reply.action =
       (IF HasIncomeKeyword(call.message) THEN "income_added" ELSE "expense_added")

NothingPersisted ==
  /\ transactions = <<>>
  /\ budgets = <<>>
  /\ reply.action = "fallback"

\* C26 as stated: a message left to the smart parse that contains a number
\* greater than 0 persists exactly one transaction, an income when it
\* contains an income keyword and an expense otherwise; a message with no
\* number, or only 0, persists nothing and gets the fallback response.
C26_Original ==
  SmartParsed =>
     IF HasPositiveNumber(call.message) THEN OneByKeywords ELSE NothingPersisted

\* C26 amended: the first number of the message decides. When it is
\* greater than 0 exactly one transaction with that amount is persisted, an
\* income when the message contains an income keyword and an expense
\* otherwise; when the message has no number or its first number is 0,
\* nothing is persisted and the fallback response is returned.
C26_FirstNumberDecides ==
  SmartParsed =>
     IF FirstNumber(call.message) > 0
     THEN OneByKeywords /\ transactions[1].amount = FirstNumber(call.message)
     ELSE NothingPersisted

\* "lunch 0 dinner 50" got the fallback response and nothing was persisted
C26_Witness ==
  /\ SmartParsed
  /\ call.message = <<"l","u","n","c","h"," ","0"," ","d","i","n","n","e","r"," ","5","0">>
  /\ HasPositiveNumber(call.message)
  /\ NothingPersisted

(***************************************************************************)
(* C27                                                                     *)
(***************************************************************************)
\* the form "spent <amount> on <description>" or "paid <amount> for
\* <description>" with a description that is not empty
SpentOnForm ==
  Cat(<< Alt(<< Cat(<<Lit(<<"s","p","e","n","t">>), Sp1, Number, Sp1, Lit(<<"o","n">>)>>),
                Cat(<<Lit(<<"p","a","i","d">>), Sp1, Number, Sp1, Lit(<<"f","o","r">>)>>) >>),
         Sp1,
         Plus(Dot) >>)

\* the one call of the run took the deterministic path with a message of
\* that form whose amount is greater than 0
SpentOnCall ==
  /\ call # NoCall
  /\ call.path = "regex"
  /\ Match(<<SpentOnForm>>, call.message, 1, NoGroups).ok
  /\ FirstNumber(call.message) > 0

\* C27: on the deterministic path a message "spent <amount> on
\* <description>" or "paid <amount> for <description>" with an amount
\* greater than 0 and a description that is not empty persists exactly one
\* expense with that amount and is answered expense_added, whatever words
\* the description contains.
C27_SpentOnAlwaysRecorded ==
  SpentOnCall =>
     /\ reply.action = "expense_added"
     /\ Len(transactions) = 1
     /\ transactions[1].transaction_type = "expense"
     /\ transactions[1].amount = FirstNumber(call.message)

(***************************************************************************)
(* C28                                                                     *)
(***************************************************************************)
\* the actions that tell of stored data
StoringActions == {"expense_added", "income_added", "budget_set"}

\* C28: a process_message call that returns an action other than
\* expense_added, income_added and budget_set leaves the transactions and the
\* budgets as they were, on the deterministic and on the remote-assisted
\* path.
C28_ActionTellsChange ==
  [][(Called /\ reply' # Raised /\ reply'.action \notin StoringActions)
       => UNCHANGED <<transactions, budgets>>]_vars

(***************************************************************************)
(* C29                                                                     *)
(***************************************************************************)
\* C29: a process_message call persists at most one transaction on every
\* path: the deterministic one, the remote-assisted one with a JSON fragment,
\* and a remote failure followed by the deterministic path.
C29_AtMostOneTransaction ==
  [][Len(transactions') <= Len(transactions) + 1]_vars

\* the remote request failed for "spent 500 on groceries" and the
\* deterministic path recorded the expense once
C29_Witness ==
  /\ call.path = "gemini"
  /\ call.remote.kind = "error"
  /\ call.message = <<"s","p","e","n","t"," ","5","0","0"," ","o","n"," ","g","r","o","c","e","r","i","e","s">>
  /\ reply.action = "expense_added"
  /\ Len(transactions) = 1

(***************************************************************************)
(* C30                                                                     *)
(***************************************************************************)
\* the rows of a table that belong to user_id
OwnRows(table, user_id) == SelectSeq(table, LAMBDA r : r.user_id = user_id)

\* the results computed for user_id are the ones computed from the rows of
\* user_id alone
FromOwnRows(user_id) ==
  LET txs == OwnRows(transactions, user_id)
      bs  == OwnRows(budgets, user_id)
  IN  /\ get_summary(transactions, user_id, NoDate) = get_summary(txs, user_id, NoDate)
      /\ get_summary(transactions, user_id, MonthStart(Today))
           = get_summary(txs, user_id, MonthStart(Today))
      /\ get_category_breakdown(transactions, user_id, NoDate)
           = get_category_breakdown(txs, user_id, NoDate)
      /\ get_transactions(transactions, user_id, MaxTx) = get_transactions(txs, user_id, MaxTx)
      /\ get_budget_status(budgets, transactions, user_id)
           = get_budget_status(bs, txs, user_id)
      /\ get_monthly_trends(transactions, user_id, 6) = get_monthly_trends(txs, user_id, 6)

\* the step is an operation on behalf of user_id: one of the storage
\* operations, or the call to the assistant
ActsFor(user_id) ==
  \/ AddFor(user_id)
  \/ UpdateFor(user_id)
  \/ DeleteFor(user_id)
  \/ SetBudgetFor(user_id)
  \/ ClearFor(user_id)
  \/ Called /\ call'.user_id = user_id

\* the step leaves the transactions and the budgets of the users other than
\* user_id as they were
OthersUntouched(user_id) ==
  \A other \in Users \ {user_id} :
     /\ OwnRows(transactions', other) = OwnRows(transactions, other)
     /\ OwnRows(budgets', other) = OwnRows(budgets, other)

\* C30: user isolation. An operation on behalf of a user (process_message,
\* add, update or delete of a transaction, set_budget, clear_all_data) leaves
\* the transactions and the budgets of every other user unchanged, and the
\* summary, category breakdown, recent transactions, budget status and
\* monthly trends computed for a user are derived from that user's own
\* transactions and budgets only.
C30_UserIsolation ==
  /\ [](\A user_id \in Users : FromOwnRows(user_id))
  /\ [][\A user_id \in Users : ActsFor(user_id) => OthersUntouched(user_id)]_vars

\* the first user's data was cleared or deleted while the second user
\* keeps a transaction and a budget
C30_Witness ==
  /\ OwnRows(transactions, 1) = <<>>
  /\ OwnRows(budgets, 1) = <<>>
  /\ OwnRows(transactions, 2) # <<>>
  /\ OwnRows(budgets, 2) # <<>>
  /\ last_tx_id > Len(transactions)


====
